---------------------------- MODULE Spec2Model ----------------------------
(***************************************************************************)
(* A model of the SPACE-Language front end (semantic analyzer first).      *)
(*                                                                         *)
(* The semantic analyzer (src/src/semanticAnalyzer.c) walks the parse tree *)
(* of a program statement by statement (SA_manage_runnable) and builds a   *)
(* forest of SemanticTables.  The model keeps the forest in `tables`, the  *)
(* table of the runnable that is being walked in `cur`, and lets the       *)
(* environment choose the next statement of the runnable under analysis:   *)
(* one action per case of the switch in SA_manage_runnable.                *)
(*                                                                         *)
(* Pointers are modelled as sequences of length <= 1 (<<>> is NULL), table *)
(* pointers as indices into `tables` (0 is NULL).                          *)
(***************************************************************************)
EXTENDS Integers, Sequences, FiniteSets, TLC

VARIABLES
    \* ---- the type comparison harness (SpecTypes)
    type1, type2,     \* the two VarDec arguments
    phase,            \* "input" | "strict" | "lenient"
    result,           \* what SA_are_VarTypes_equal returned
    \* ---- the analyzer walk
    tables,           \* the SemanticTable forest, tables[1] is MAIN
    cur,              \* index of the table of the runnable being walked
    sib,              \* per open runnable: the previous sibling statement
    diags,            \* diagnostics thrown by the last statement
    last,             \* the last statement handled and the table it was in
    status,           \* "run" | "done" | "crash"
    nstmt,            \* number of statements handled so far
    \* ---- the parse-tree builder harness
    tokenArray,       \* the token array handed to the builder
    stage,            \* "input" | "built"
    built,            \* what the builder returned
    \* ---- the sizing pass of the input reader
    INPUT_BUFFER,         \* the bytes of the source file
    bufferPos,        \* the loop index i of get_minimum_token_number
    tokenNumber,      \* the tokens counted so far
    ARRAY_OF_INDIVIDUAL_TOKEN_SIZES,  \* the sizes written so far
    sized,            \* per token counted: where it starts and what sized it
    sizing            \* "idle" | "loop" | "returned" | "overflow" | "fault"

typeVars == <<type1, type2, phase, result>>
walkVars == <<tables, cur, sib, diags, last, status, nstmt>>
parseVars == <<tokenArray, stage, built>>
sizeVars == <<INPUT_BUFFER, bufferPos, tokenNumber, ARRAY_OF_INDIVIDUAL_TOKEN_SIZES,
              sized, sizing>>
vars == <<type1, type2, phase, result, tables, cur, sib, diags, last, status, nstmt,
          tokenArray, stage, built,
          INPUT_BUFFER, bufferPos, tokenNumber, ARRAY_OF_INDIVIDUAL_TOKEN_SIZES, sized, sizing>>

(***************************************************************************)
(* Bounds of the model.                                                    *)
(***************************************************************************)
MaxDim == 1
MaxStmts == 3
MaxTables == 4

MaxAssignStmts == 2

MaxClassStmts == 3

MaxParams == 2

MaxCallStmts == 4

MaxPlacementStmts == 4

MaxArrayStmts == 3

MaxArrayDim == 2

MaxAccesses == 3

MaxDiagStmts == 3

(***************************************************************************)
(* VarDec: struct VarDec {type, dimension, classType} as the analyzer      *)
(* fills it (the `constant` flag takes no part in any comparison).         *)
(***************************************************************************)
Dec(t, d, c) == [type |-> t, dimension |-> d, classType |-> c]

nullDec == Dec("null", 0, "NULL")
externalDec == Dec("EXTERNAL_RET", 0, "NULL")
custDec == Dec("CUSTOM", 0, "NULL")

PrimitiveKinds ==
    {"INTEGER", "DOUBLE", "FLOAT", "STRING", "LONG", "SHORT", "BOOLEAN", "CHAR",
     "CUSTOM", "VOID", "null", "EXTERNAL_RET", "E_FUNCTION_CALL",
     "E_NON_FUNCTION_CALL", "CONSTRUCTOR_PARAM", "EXT_CLASS_OR_INTERFACE"}

ClassNames == {"A", "B"}

\* strcmp(a, b) == 0
StrEq(a, b) == a = b

(***************************************************************************)
(* SA_are_strict_VarTypes_equal                                            *)
(***************************************************************************)
SA_are_strict_VarTypes_equal(t1, t2) ==
    IF t1.type = "CLASS_REF" /\ t2.type = "CLASS_REF"
       /\ StrEq(t1.classType, t2.classType) /\ t1.dimension = t2.dimension
    THEN TRUE
    ELSE IF t1.type = "EXTERNAL_RET" \/ t2.type = "EXTERNAL_RET"
    THEN TRUE
    ELSE t1.type = t2.type /\ t1.dimension = t2.dimension

(***************************************************************************)
(* SA_are_non_strict_VarTypes_equal                                        *)
(***************************************************************************)
SA_are_non_strict_VarTypes_equal(t1, t2) ==
    IF /\ t1.type \in {"DOUBLE", "FLOAT"}
       /\ t2.type \in {"DOUBLE", "FLOAT"}
       /\ t1.dimension = t2.dimension
    THEN TRUE
    ELSE IF t1.type = "CUSTOM" /\ t1.dimension = t2.dimension
    THEN TRUE
    ELSE IF t1.type = "CLASS_REF" /\ t2.type = "CLASS_REF"
            /\ StrEq(t1.classType, t2.classType) /\ t1.dimension = t2.dimension
    THEN TRUE
    ELSE IF t1.type = "EXTERNAL_RET" \/ t2.type = "EXTERNAL_RET"
    THEN TRUE
    ELSE t1.type = t2.type /\ t1.dimension = t2.dimension

(***************************************************************************)
(* SA_are_VarTypes_equal                                                   *)
(***************************************************************************)
SA_are_VarTypes_equal(t1, t2, strict) ==
    IF strict THEN SA_are_strict_VarTypes_equal(t1, t2)
              ELSE SA_are_non_strict_VarTypes_equal(t1, t2)

(***************************************************************************)
(* Pointers.  A pointer is <<>> (NULL) or <<x>>; a table pointer is an      *)
(* index into the table forest, 0 being NULL.                              *)
(***************************************************************************)
NULL == <<>>

Ptr(x) == <<x>>

(***************************************************************************)
(* Parse tree nodes as the tree builder hands them over: type, value, the  *)
(* left and right child pointers and the details array (a sequence of      *)
(* pointers, detailsCount is its length; details == NULL is <<>>).         *)
(***************************************************************************)
Node(type, value, leftNode, rightNode, details) ==
    [type |-> type, value |-> value, leftNode |-> leftNode,
     rightNode |-> rightNode, details |-> details]

Leaf(type, value) == Node(type, value, NULL, NULL, <<>>)

\* snprintf(buffer, 16, "%i", n) for n >= 0
RECURSIVE itoa(_)
itoa(n) ==
    LET digit == SubSeq("0123456789", (n % 10) + 1, (n % 10) + 1)
    IN IF n < 10 THEN digit ELSE itoa(n \div 10) \o digit

\* PG_add_varType_definition: the type name, and the dimension count (if
\* there are dimensions) printed into a _VAR_DIM_NODE_ at the left.
VarTypeNode(name, dims) ==
    Node("_VAR_TYPE_NODE_", name,
         IF dims > 0 THEN Ptr(Leaf("_VAR_DIM_NODE_", itoa(dims))) ELSE NULL,
         NULL, <<>>)

\* PG_create_modifier_node
ModifierNode(word) == Leaf("_MODIFIER_NODE_", word)

\* atoi: the value of the leading decimal digits
RECURSIVE atoiFrom(_, _, _)
atoiFrom(str, i, acc) ==
    IF i > Len(str) THEN acc
    ELSE LET c == SubSeq(str, i, i)
             d == CHOOSE k \in 0..10 : k = 10 \/ SubSeq("0123456789", k + 1, k + 1) = c
         IN IF d = 10 THEN acc ELSE atoiFrom(str, i + 1, acc * 10 + d)

\* A conversion that reads no digit
ReadsNoDigit(str) == 0

atoi(str) == atoiFrom(str, 1, 0)

(***************************************************************************)
(* TYPE_LOOKUP and the prefix test `strstr(value, name) - value == 0`.     *)
(***************************************************************************)
TYPE_LOOKUP ==
    << [name |-> "int", type |-> "INTEGER"], [name |-> "double", type |-> "DOUBLE"],
       [name |-> "float", type |-> "FLOAT"], [name |-> "short", type |-> "SHORT"],
       [name |-> "long", type |-> "LONG"], [name |-> "char", type |-> "CHAR"],
       [name |-> "boolean", type |-> "BOOLEAN"], [name |-> "String", type |-> "STRING"],
       [name |-> "void", type |-> "VOID"] >>

StartsWith(value, name) ==
    Len(value) >= Len(name) /\ SubSeq(value, 1, Len(name)) = name

(***************************************************************************)
(* SA_get_VarType                                                          *)
(***************************************************************************)
SA_get_VarType(node) ==
    IF node = NULL THEN Dec("CUSTOM", 0, "NULL")
    ELSE LET n == node[1]
             dim == IF n.leftNode = NULL THEN 0 ELSE atoi(n.leftNode[1].value)
             hits == {i \in 1..Len(TYPE_LOOKUP) : StartsWith(n.value, TYPE_LOOKUP[i].name)}
         IN IF hits # {}
            THEN LET i == CHOOSE k \in hits : \A j \in hits : k <= j
                 IN Dec(TYPE_LOOKUP[i].type, dim, "NULL")
            ELSE Dec("CLASS_REF", dim, n.value)

(***************************************************************************)
(* SA_convert_identifier_to_VarType                                        *)
(***************************************************************************)
SA_convert_identifier_to_VarType(n) ==
    Dec(CASE n.type = "_FLOAT_NODE_" -> "DOUBLE"
          [] n.type = "_NUMBER_NODE_" -> "INTEGER"
          [] OTHER -> "CUSTOM",
        IF n.leftNode = NULL THEN 0 ELSE atoi(n.leftNode[1].value),
        "NULL")

(***************************************************************************)
(* SA_get_visibility.  A non-modifier node ends the process (exit); the    *)
(* tree builder only ever stores a _MODIFIER_NODE_ or NULL in that slot.   *)
(***************************************************************************)
SA_get_visibility(visibilityNode) ==
    IF visibilityNode = NULL THEN "P_GLOBAL"
    ELSE IF visibilityNode[1].type # "_MODIFIER_NODE_" THEN "EXIT_FAILURE"
    ELSE CASE visibilityNode[1].value = "global" -> "GLOBAL"
           [] visibilityNode[1].value = "secure" -> "SECURE"
           [] visibilityNode[1].value = "private" -> "PRIVATE"
           [] OTHER -> "P_GLOBAL"

(***************************************************************************)
(* SA_get_VarType_string: the lookup string (the class name for types not  *)
(* in VarTypeStringLookup), cut to 7 characters by strncpy, then "-" for a *)
(* negative dimension and one "[]" per dimension.                          *)
(***************************************************************************)
VarTypeStringLookup ==
    << <<"INTEGER", "INTEGER">>, <<"DOUBLE", "DOUBLE">>, <<"FLOAT", "FLOAT">>,
       <<"STRING", "STRING">>, <<"LONG", "LONG">>, <<"SHORT", "SHORT">>,
       <<"BOOLEAN", "BOOLEAN">>, <<"CHAR", "CHAR">>, <<"CUSTOM", "CUSTOM">>,
       <<"VOID", "VOID">>, <<"null", "null">>, <<"EXTERNAL_RET", "EXT">>,
       <<"E_FUNCTION_CALL", "<FUNCTION_CALL>">>,
       <<"E_NON_FUNCTION_CALL", "<NON_FUNCTION_CALL>">> >>

\* strncpy(string, buffer, 7)
strncpy7(buffer) == IF Len(buffer) > 7 THEN SubSeq(buffer, 1, 7) ELSE buffer

RECURSIVE Brackets(_)
Brackets(n) == IF n = 0 THEN "" ELSE "[]" \o Brackets(n - 1)

SA_get_VarType_string(type) ==
    LET hits == {i \in 1..Len(VarTypeStringLookup) : VarTypeStringLookup[i][1] = type.type}
        buffer == IF hits = {} THEN type.classType
                  ELSE VarTypeStringLookup[CHOOSE i \in hits : TRUE][2]
    IN strncpy7(buffer)
       \o (IF type.dimension < 0 THEN "-" ELSE "")
       \o Brackets(IF type.dimension < 0 THEN 0 - type.dimension ELSE type.dimension)

(***************************************************************************)
(* Semantic reports, entries and tables.                                   *)
(***************************************************************************)
SA_create_semantic_report(type, errStatus, errorNode, errorType, description) ==
    [dec |-> type, status |-> errStatus, errorNode |-> errorNode,
     errorType |-> errorType, description |-> description]

nullRep == SA_create_semantic_report(nullDec, "SUCCESS", NULL, "NONE", NULL)

SA_create_expected_got_report(expected, got, errorNode) ==
    SA_create_semantic_report(nullDec, "ERROR", errorNode, "TYPE_MISMATCH_EXCEPTION",
        Ptr("Expected " \o SA_get_VarType_string(expected) \o ", but got "
            \o SA_get_VarType_string(got) \o " instead."))

SA_create_semantic_entry(name, varType, visibility, internalType, ptr) ==
    [name |-> name, dec |-> varType, visibility |-> visibility,
     internalType |-> internalType, reference |-> ptr]

\* SA_create_new_scope_table with SA_add_parameters_to_runnable_table; the
\* name is NULL until the caller sets it.
SA_create_new_scope_table(scope, parent, params) ==
    [type |-> scope, parent |-> parent, name |-> NULL,
     paramList |-> params, symbolTable |-> <<>>]

(***************************************************************************)
(* The hash map of a table (its implementation is not part of the source   *)
(* tree): a map from key to entry, kept as the sequence of its entries,    *)
(* one per key; adding under a present key replaces that key's entry.      *)
(***************************************************************************)
HM_contains_key(key, map) == \E i \in 1..Len(map) : map[i].name = key

HM_get_entry(key, map) == map[CHOOSE i \in 1..Len(map) : map[i].name = key]

HM_add_entry(key, entry, map) ==
    IF HM_contains_key(key, map)
    THEN [i \in 1..Len(map) |-> IF map[i].name = key THEN entry ELSE map[i]]
    ELSE Append(map, entry)

\* L_add_item
L_add_item(list, item) == Append(list, item)

(***************************************************************************)
(* Undefined behaviour.  Where the code dereferences a NULL pointer or     *)
(* hands one to strcmp, the outcome is chosen by the environment: the      *)
(* process dies ("crash"), or the operation yields an arbitrary value      *)
(* ("zero" / "nonzero").  A report with status CRASH stands for the death  *)
(* of the process and is handed up unchanged.                              *)
(***************************************************************************)
UBOutcomes == {"crash", "zero", "nonzero"}

CrashRep == SA_create_semantic_report(nullDec, "CRASH", NULL, "NONE", NULL)

UBRep(ub) ==
    CASE ub = "crash" -> CrashRep
      [] ub = "zero" -> SA_create_semantic_report(custDec, "SUCCESS", NULL, "NONE", NULL)
      [] OTHER -> SA_create_semantic_report(nullDec, "ERROR", NULL, "NONE", NULL)

Crashed(rep) == rep.status = "CRASH"

Failed(rep) == rep.status \in {"ERROR", "CRASH"}

(***************************************************************************)
(* Lookups in the table forest T.                                          *)
(***************************************************************************)
\* SA_get_param_entry_if_available
SA_get_param_entry_if_available(key, T, table) ==
    IF table = 0 THEN NULL
    ELSE LET list == T[table].paramList
             hits == {i \in 1..Len(list) : StrEq(list[i].name, key)}
         IN IF hits = {} THEN NULL
            ELSE Ptr(list[CHOOSE i \in hits : \A j \in hits : i <= j])

\* SA_get_entry_if_available (the entry pointer of the SemanticEntryReport)
SA_get_entry_if_available(topNode, T, table) ==
    IF topNode = NULL \/ table = 0 THEN NULL
    ELSE IF HM_contains_key(topNode[1].value, T[table].symbolTable)
         THEN Ptr(HM_get_entry(topNode[1].value, T[table].symbolTable))
         ELSE SA_get_param_entry_if_available(topNode[1].value, T, table)

\* SA_get_next_table_with_declaration
RECURSIVE SA_get_next_table_with_declaration(_, _, _)
SA_get_next_table_with_declaration(node, T, table) ==
    IF table = 0 THEN 0
    ELSE IF /\ ~HM_contains_key(node[1].value, T[table].symbolTable)
            /\ SA_get_param_entry_if_available(node[1].value, T, table) = NULL
         THEN SA_get_next_table_with_declaration(node, T, T[table].parent)
         ELSE table

\* SA_get_next_table_of_type
RECURSIVE SA_get_next_table_of_type(_, _, _)
SA_get_next_table_of_type(T, currentTable, type) ==
    IF currentTable = 0 THEN 0
    ELSE IF T[currentTable].type = type \/ T[currentTable].type = "MAIN"
         THEN currentTable
         ELSE SA_get_next_table_of_type(T, T[currentTable].parent, type)

\* SA_is_obj_already_defined
RECURSIVE SA_is_obj_already_defined(_, _, _)
SA_is_obj_already_defined(key, T, scopeTable) ==
    IF scopeTable = 0 THEN FALSE
    ELSE IF \/ HM_contains_key(key, T[scopeTable].symbolTable)
            \/ SA_get_param_entry_if_available(key, T, scopeTable) # NULL
         THEN TRUE
         ELSE SA_is_obj_already_defined(key, T, T[scopeTable].parent)

\* SA_is_break_or_continue_placement_valid
RECURSIVE WalkPlacement(_, _, _)
WalkPlacement(T, temp, metLoop) ==
    IF temp = 0 THEN metLoop
    ELSE CASE T[temp].type \in {"FOR", "WHILE", "DO", "IS"} ->
                WalkPlacement(T, T[temp].parent, TRUE)
           [] T[temp].type \in {"IF", "ELSE_IF", "ELSE", "TRY", "CATCH"} ->
                WalkPlacement(T, T[temp].parent, metLoop)
           [] OTHER -> metLoop

SA_is_break_or_continue_placement_valid(T, table) == WalkPlacement(T, table, FALSE)

\* SA_is_node_arithmetic_operator
SA_is_node_arithmetic_operator(n) ==
    n.type \in {"_PLUS_NODE_", "_MINUS_NODE_", "_MULTIPLY_NODE_", "_MODULO_NODE_",
                "_DIVIDE_NODE_"}

\* SA_get_node_param_count
SA_get_node_param_count(paramHolder) ==
    Cardinality({i \in 1..Len(paramHolder.details) :
                    /\ paramHolder.details[i] # NULL
                    /\ paramHolder.details[i][1].type # "_RUNNABLE_NODE_"})

\* SA_get_params: the entries of the ParamTransferObject
SA_get_params(topNode) ==
    LET keep == {i \in 1..Len(topNode.details) :
                    /\ topNode.details[i] # NULL
                    /\ topNode.details[i][1].type \notin {"_RUNNABLE_NODE_", "_VAR_TYPE_NODE_"}}
        RECURSIVE Collect(_)
        Collect(i) ==
            IF i > Len(topNode.details) THEN <<>>
            ELSE IF i \in keep
                 THEN LET innerNode == topNode.details[i][1]
                          typeNode == IF Len(innerNode.details) > 0
                                      THEN innerNode.details[1] ELSE NULL
                      IN <<SA_create_semantic_entry(innerNode.value, SA_get_VarType(typeNode),
                                                    "P_GLOBAL", "VARIABLE", 0)>>
                         \o Collect(i + 1)
                 ELSE Collect(i + 1)
    IN Collect(1)

\* SA_execute_function_call_precheck
SA_execute_function_call_precheck(ref, topNode, fnccType, T) ==
    IF ref = 0 THEN nullRep
    ELSE IF Len(topNode[1].details) # Len(T[ref].paramList)
    THEN SA_create_semantic_report(nullDec, "ERROR", topNode, "WRONG_ARGUMENT_EXCPEPTION",
            Ptr("The argument count is not equal to the definition."))
    ELSE IF fnccType = "CONSTRUCTOR_CHECK_CALL" THEN nullRep
    ELSE IF \/ topNode[1].type = "_FUNCTION_CALL_NODE_" /\ T[ref].type # "FUNCTION"
            \/ topNode[1].type = "_CLASS_CONSTRUCTOR_NODE_" /\ T[ref].type # "CONSTRUCTOR"
    THEN SA_create_expected_got_report(Dec("E_FUNCTION_CALL", 0, "NULL"),
                                       Dec("E_NON_FUNCTION_CALL", 0, "NULL"), topNode)
    ELSE nullRep

\* SA_evaluate_modifier
SA_evaluate_modifier(currentScope, vis, node, topTable, T, ub) ==
    IF T[topTable].type = "MAIN"
    THEN IF vis # "P_GLOBAL"
         THEN SA_create_semantic_report(nullDec, "ERROR", node,
                "STATEMENT_MISPLACEMENT_EXCEPTION",
                Ptr("Modifiers outside of classes are not allowed."))
         ELSE nullRep
    ELSE LET nextClassTable == SA_get_next_table_of_type(T, currentScope, "CLASS")
             hidden == IF vis \in {"PRIVATE", "SECURE"}
                       THEN SA_create_semantic_report(nullDec, "ERROR", node,
                              "MODIFIER_EXCEPTION",
                              Ptr("Tried to access \"hidden\" declaration."))
                       ELSE nullRep
         IN IF nextClassTable = 0 THEN nullRep
            ELSE IF T[currentScope].name = NULL \/ T[nextClassTable].name = NULL
            THEN \* strcmp on a NULL name
                 IF ub = "crash" THEN CrashRep
                 ELSE IF ub = "zero" /\ T[nextClassTable].type # "MAIN" THEN nullRep
                 ELSE hidden
            ELSE IF /\ StrEq(T[currentScope].name, T[nextClassTable].name)
                    /\ T[nextClassTable].type # "MAIN"
            THEN nullRep
            ELSE hidden

\* SA_execute_access_type_checking
SA_execute_access_type_checking(cacheNode, currentScope, topScope, T, ub) ==
    IF cacheNode = NULL
    THEN SA_create_semantic_report(nullDec, "SUCCESS", NULL, "NONE", NULL)
    ELSE IF cacheNode[1].type = "_CLASS_ACCESS_NODE_"
    THEN IF currentScope = 0 THEN UBRep(ub)
         ELSE IF T[currentScope].type # "CLASS"
         THEN SA_create_semantic_report(nullDec, "ERROR", cacheNode,
                "WRONG_ACCESSOR_EXCEPTION",
                Ptr("Used \"->\" for non-class access instead of \".\"."))
         ELSE SA_create_semantic_report(nullDec, "SUCCESS", NULL, "NONE", NULL)
    ELSE IF cacheNode[1].type = "_MEMBER_ACCESS_NODE_"
    THEN IF topScope = 0 \/ currentScope = 0 THEN UBRep(ub)
         ELSE IF T[topScope].type # "CLASS" /\ T[currentScope].type # "ENUM"
         THEN SA_create_semantic_report(nullDec, "ERROR", cacheNode,
                "WRONG_ACCESSOR_EXCEPTION",
                Ptr("Used \"->\" for member access instead of \".\"."))
         ELSE SA_create_semantic_report(nullDec, "SUCCESS", NULL, "NONE", NULL)
    ELSE nullRep

(***************************************************************************)
(* Term evaluation.  The functions call each other as in the source; the   *)
(* calls are made through Invoke, which hands the arguments to the         *)
(* function named.  Each takes the table forest T and the outcome ub of    *)
(* the undefined behaviour it may run into.                                *)
(***************************************************************************)
RECURSIVE Invoke(_, _)

\* SA_evaluate_simple_term
SA_evaluate_simple_term(expectedType, topNode, table, T, ub) ==
    IF topNode = NULL THEN UBRep(ub)
    ELSE IF SA_is_node_arithmetic_operator(topNode[1])
    THEN LET leftTerm == Invoke("SA_evaluate_simple_term",
                                  <<expectedType, topNode[1].leftNode, table, T, ub>>)
             rightTerm == Invoke("SA_evaluate_simple_term",
                                   <<expectedType, topNode[1].rightNode, table, T, ub>>)
         IN IF Crashed(leftTerm) THEN leftTerm
            ELSE IF Crashed(rightTerm) THEN rightTerm
            ELSE IF leftTerm.status = "ERROR" THEN leftTerm
            ELSE IF rightTerm.status = "ERROR" THEN rightTerm
            ELSE nullRep
    ELSE Invoke("SA_evaluate_term_side", <<expectedType, topNode, table, T, ub>>)

\* SA_evaluate_term_side
SA_evaluate_term_side(expectedType, node, table, T, ub) ==
    LET n == node[1]
        isAccess == n.type \in {"_MEM_CLASS_ACC_NODE_", "_IDEN_NODE_", "_FUNCTION_CALL_NODE_"}
        rep == Invoke("SA_evaluate_member_access", <<node, table, T, ub>>)
        predictedType ==
            CASE n.type \in {"_NUMBER_NODE_", "_FLOAT_NODE_"} ->
                    SA_convert_identifier_to_VarType(n)
              [] n.type = "_NULL_NODE_" -> nullDec
              [] n.type = "_STRING_NODE_" -> Dec("STRING", 0, "NULL")
              [] n.type = "_CHAR_ARRAY_NODE_" ->
                    IF Len(n.value) > 3 THEN Dec("STRING", 0, "NULL")
                                        ELSE Dec("CHAR", 0, "NULL")
              [] isAccess -> rep.dec
              [] n.type = "_BOOL_NODE_" -> Dec("BOOLEAN", 0, "NULL")
              [] OTHER -> custDec
        errorNode == IF n.type = "_MEM_CLASS_ACC_NODE_" THEN n.leftNode ELSE node
    IN IF isAccess /\ Failed(rep) THEN rep
       ELSE IF ~SA_are_VarTypes_equal(expectedType, predictedType, FALSE)
       THEN SA_create_expected_got_report(expectedType, predictedType, errorNode)
       ELSE SA_create_semantic_report(predictedType, "SUCCESS", NULL, "NONE", NULL)

\* SA_evaluate_member_access
SA_evaluate_member_access(topNode, table, T, ub) ==
    LET rep ==
            IF topNode[1].type = "_MEM_CLASS_ACC_NODE_"
            THEN IF topNode[1].leftNode = NULL THEN UBRep(ub)
                 ELSE Invoke("SA_check_non_restricted_member_access",
                        <<topNode,
                          SA_get_next_table_with_declaration(topNode[1].leftNode, T, table),
                          custDec, table,
                          SA_get_next_table_with_declaration(topNode[1].leftNode, T, table),
                          T, ub>>)
            ELSE Invoke("SA_check_restricted_member_access",
                    <<topNode, table, SA_get_next_table_with_declaration(topNode, T, table),
                      T, ub>>)
    IN IF Failed(rep) THEN rep
       ELSE SA_create_semantic_report(rep.dec, "SUCCESS", NULL, "NONE", NULL)

\* SA_check_non_restricted_member_access: one round of its loop
NonRestrictedLoop(cacheNode, currentScope, retType, table, topScope, T, ub) ==
    IF cacheNode = NULL
    THEN SA_create_semantic_report(retType, "SUCCESS", NULL, "NONE", NULL)
    ELSE LET entry == SA_get_entry_if_available(cacheNode[1].leftNode, T, currentScope)
             resMemRep == Invoke("SA_check_restricted_member_access",
                                 <<cacheNode[1].leftNode, table, currentScope, T, ub>>)
             checkRes == SA_execute_access_type_checking(cacheNode, currentScope, topScope, T, ub)
         IN IF Crashed(resMemRep) THEN resMemRep
            ELSE IF entry = NULL
            THEN SA_create_semantic_report(nullDec, "ERROR", cacheNode[1].leftNode,
                                           "NOT_DEFINED_EXCEPTION", NULL)
            ELSE IF resMemRep.status = "ERROR" THEN resMemRep
            ELSE IF entry[1].internalType = "EXTERNAL"
            THEN SA_create_semantic_report(externalDec, "SUCCESS", NULL, "NONE", NULL)
            ELSE IF Failed(checkRes) THEN checkRes
            ELSE Invoke("SA_check_non_restricted_member_access",
                        <<cacheNode[1].rightNode, entry[1].reference, resMemRep.dec, table,
                          topScope, T, ub>>)

\* A loop over the accesses that leaves the dimension as it is
KeepsDimension(cache, currentType, table, T, ub) ==
    [rep |-> nullRep, type |-> currentType]

\* SA_handle_array_accesses: one round of its loop; yields the report and
\* the type with its dimension counted down
ArrayAccessLoop(cache, currentType, table, T, ub) ==
    IF cache = NULL
    THEN [rep |-> nullRep, type |-> currentType]
    ELSE LET termRep == IF cache[1].leftNode # NULL
                        THEN Invoke("SA_evaluate_simple_term",
                                    <<Dec("INTEGER", 0, "NULL"), cache[1].leftNode, table,
                                      T, ub>>)
                        ELSE nullRep
         IN IF Failed(termRep) THEN [rep |-> termRep, type |-> currentType]
            ELSE Invoke("ArrayAccessLoop",
                        <<cache[1].rightNode, [currentType EXCEPT !.dimension = @ - 1],
                          table, T, ub>>)

\* SA_handle_array_accesses
SA_handle_array_accesses(currentType, arrayAccStart, table, T, ub) ==
    IF arrayAccStart[1].leftNode = NULL
    THEN [rep |-> nullRep, type |-> currentType]
    ELSE IF arrayAccStart[1].leftNode[1].type # "_ARRAY_ACCESS_NODE_"
    THEN [rep |-> nullRep, type |-> currentType]
    ELSE LET walked == Invoke("ArrayAccessLoop",
                              <<arrayAccStart[1].leftNode, currentType, table, T, ub>>)
         IN IF Failed(walked.rep) THEN walked
            ELSE IF walked.type.dimension < 0
            THEN [rep |-> SA_create_semantic_report(nullDec, "ERROR", arrayAccStart,
                            "NO_SUCH_ARRAY_DIMENSION_EXCEPTION",
                            Ptr("Negative arrays are not allowed.")),
                  type |-> walked.type]
            ELSE [rep |-> nullRep, type |-> walked.type]

\* SA_check_restricted_member_access
SA_check_restricted_member_access(node, table, topScope, T, ub) ==
    LET entry == SA_get_entry_if_available(node, T, topScope)
    IN IF entry = NULL
       THEN SA_create_semantic_report(nullDec, "ERROR", node, "NOT_DEFINED_EXCEPTION", NULL)
       ELSE LET isCall == node[1].type = "_FUNCTION_CALL_NODE_"
                rep == Invoke("SA_evaluate_function_call",
                              <<node, entry, table, "FNC_CALL", T, ub>>)
                retType == IF isCall THEN rep.dec ELSE entry[1].dec
                arrayRep == Invoke("SA_handle_array_accesses", <<retType, node, topScope, T, ub>>)
            IN IF isCall /\ Failed(rep) THEN rep
               ELSE IF Failed(arrayRep.rep) THEN arrayRep.rep
               ELSE SA_create_semantic_report(arrayRep.type, "SUCCESS", NULL, "NONE", NULL)

\* SA_execute_identifier_analysis: the report and *currentNodeType
SA_execute_identifier_analysis(currentNode, callScopeTable, currentEntryParam, fnccType, T, ub) ==
    IF fnccType = "FNC_CALL"
    THEN LET rep == IF currentNode[1].type \in {"_MEM_CLASS_ACC_NODE_", "_FUNCTION_CALL_NODE_"}
                    THEN Invoke("SA_evaluate_member_access",
                                <<currentNode, callScopeTable, T, ub>>)
                    ELSE Invoke("SA_evaluate_simple_term",
                                <<currentEntryParam.dec, currentNode, callScopeTable, T, ub>>)
         IN IF Failed(rep) THEN [rep |-> rep, type |-> custDec]
            ELSE [rep |-> nullRep, type |-> rep.dec]
    ELSE LET declared == IF Len(currentNode[1].details) > 0
                         THEN SA_get_VarType(currentNode[1].details[1])
                         ELSE custDec
             termRep == Invoke("SA_evaluate_simple_term",
                               <<currentEntryParam.dec, currentNode, callScopeTable, T, ub>>)
         IN IF declared.type = "CUSTOM" /\ fnccType = "CONSTRUCTOR_CHECK_CALL"
            THEN IF Failed(termRep) THEN [rep |-> termRep, type |-> currentEntryParam.dec]
                 ELSE [rep |-> nullRep, type |-> currentEntryParam.dec]
            ELSE [rep |-> nullRep, type |-> declared]

\* SA_evaluate_function_call: one round of its argument loop
ArgumentLoop(i, actualParams, topNode, functionEntry, ref, fnccType, T, ub) ==
    IF i > actualParams
    THEN SA_create_semantic_report(functionEntry[1].dec, "SUCCESS", NULL, "NONE", NULL)
    ELSE IF ref = 0 THEN UBRep(ub)        \* ref->paramList on a NULL reference
    ELSE LET currentNode == topNode[1].details[i]
             currentEntryParam == T[ref].paramList[i]
             analysis == Invoke("SA_execute_identifier_analysis",
                                <<currentNode, ref, currentEntryParam, fnccType, T, ub>>)
             strictCheck == fnccType # "FNC_CALL"
             errorNode == IF currentNode[1].type = "_MEM_CLASS_ACC_NODE_"
                          THEN currentNode[1].leftNode ELSE currentNode
         IN IF currentNode = NULL THEN UBRep(ub)   \* currentNode->type on a NULL argument
            ELSE IF Failed(analysis.rep) THEN analysis.rep
            ELSE IF ~SA_are_VarTypes_equal(currentEntryParam.dec, analysis.type, strictCheck)
            THEN SA_create_expected_got_report(currentEntryParam.dec, analysis.type, errorNode)
            ELSE Invoke("ArgumentLoop",
                        <<i + 1, actualParams, topNode, functionEntry, ref, fnccType, T, ub>>)

\* SA_evaluate_function_call
SA_evaluate_function_call(topNode, functionEntry, callScopeTable, fnccType, T, ub) ==
    IF functionEntry = NULL \/ topNode = NULL \/ callScopeTable = 0 THEN nullRep
    ELSE LET ref == functionEntry[1].reference
             preCheck == SA_execute_function_call_precheck(ref, topNode, fnccType, T)
             modCheck == IF fnccType = "FNC_CALL"
                         THEN SA_evaluate_modifier(ref, functionEntry[1].visibility, topNode,
                                                   callScopeTable, T, ub)
                         ELSE nullRep
             actualParams == SA_get_node_param_count(topNode[1])
         IN IF preCheck.status = "ERROR" THEN preCheck
            ELSE IF Failed(modCheck) THEN modCheck
            ELSE Invoke("ArgumentLoop",
                        <<1, actualParams, topNode, functionEntry, ref, fnccType, T, ub>>)

\* The call of the function named fn with the arguments a
Invoke(fn, a) ==
    CASE fn = "SA_evaluate_simple_term" ->
            SA_evaluate_simple_term(a[1], a[2], a[3], a[4], a[5])
      [] fn = "SA_evaluate_term_side" ->
            SA_evaluate_term_side(a[1], a[2], a[3], a[4], a[5])
      [] fn = "SA_evaluate_member_access" ->
            SA_evaluate_member_access(a[1], a[2], a[3], a[4])
      [] fn = "SA_check_non_restricted_member_access" ->
            NonRestrictedLoop(a[1], a[2], a[3], a[4], a[5], a[6], a[7])
      [] fn = "SA_check_restricted_member_access" ->
            SA_check_restricted_member_access(a[1], a[2], a[3], a[4], a[5])
      [] fn = "SA_evaluate_function_call" ->
            SA_evaluate_function_call(a[1], a[2], a[3], a[4], a[5], a[6])
      [] fn = "ArgumentLoop" ->
            ArgumentLoop(a[1], a[2], a[3], a[4], a[5], a[6], a[7], a[8])
      [] fn = "SA_execute_identifier_analysis" ->
            SA_execute_identifier_analysis(a[1], a[2], a[3], a[4], a[5], a[6])
      [] fn = "SA_handle_array_accesses" ->
            SA_handle_array_accesses(a[1], a[2], a[3], a[4], a[5])
      [] fn = "ArrayAccessLoop" ->
            ArrayAccessLoop(a[1], a[2], a[3], a[4], a[5])

\* SA_evaluate_assignment
SA_evaluate_assignment(expectedType, topNode, table, T, ub) ==
    LET mainTable == SA_get_next_table_of_type(T, table, "MAIN")
        possibleEnumEntry == SA_get_entry_if_available(topNode, T, mainTable)
    IN IF possibleEnumEntry # NULL /\ possibleEnumEntry[1].internalType = "ENUM"
       THEN Invoke("SA_evaluate_member_access", <<topNode, mainTable, T, ub>>)
       ELSE Invoke("SA_evaluate_simple_term", <<expectedType, topNode, table, T, ub>>)

\* SA_evaluate_chained_condition
RECURSIVE SA_evaluate_chained_condition(_, _, _, _)
SA_evaluate_chained_condition(table, rootNode, T, ub) ==
    IF rootNode = NULL THEN UBRep(ub)
    ELSE IF rootNode[1].type \in {"_OR_NODE_", "_AND_NODE_"}
    THEN LET leftCond == SA_evaluate_chained_condition(table, rootNode[1].leftNode, T, ub)
             rightCond == SA_evaluate_chained_condition(table, rootNode[1].rightNode, T, ub)
         IN IF Crashed(leftCond) THEN leftCond
            ELSE IF Crashed(rightCond) THEN rightCond
            ELSE IF leftCond.status = "ERROR" THEN leftCond
            ELSE IF rightCond.status = "ERROR" THEN rightCond
            ELSE nullRep
    ELSE LET lVal == Invoke("SA_evaluate_simple_term",
                            <<custDec, rootNode[1].leftNode, table, T, ub>>)
             rVal == Invoke("SA_evaluate_simple_term",
                            <<custDec, rootNode[1].rightNode, table, T, ub>>)
         IN IF Crashed(lVal) THEN lVal
            ELSE IF Crashed(rVal) THEN rVal
            ELSE IF lVal.status = "ERROR" THEN lVal
            ELSE IF rVal.status = "ERROR" THEN rVal
            ELSE nullRep

(***************************************************************************)
(* Diagnostics.  THROW_EXCEPTION prints the exception name, the place and  *)
(* value of the error node and the description; a diagnostic is the record *)
(* of what was printed.  Nothing is thrown for a report without a node:    *)
(* the node is dereferenced.                                               *)
(***************************************************************************)
THROW_EXCEPTION(message, rep) ==
    [message |-> message, errorType |-> rep.errorType,
     value |-> rep.errorNode[1].value, description |-> rep.description]

THROW_NOT_DEFINED_EXCEPTION(node) ==
    THROW_EXCEPTION("NotDefinedException",
        SA_create_semantic_report(nullDec, "ERROR", node, "NOT_DEFINED_EXCEPTION", NULL))

THROW_ALREADY_DEFINED_EXCEPTION(node) ==
    THROW_EXCEPTION("AlreadyDefinedException",
        SA_create_semantic_report(nullDec, "ERROR", node, "ALREADY_DEFINED_EXCEPTION", NULL))

THROW_STATEMENT_MISPLACEMENT_EXEPTION(node, msg) ==
    THROW_EXCEPTION("StatementMisplacementException",
        SA_create_semantic_report(nullDec, "ERROR", node,
                                  "STATEMENT_MISPLACEMENT_EXCEPTION", Ptr(msg)))

THROW_ASSIGNED_EXCEPTION(rep) ==
    CASE rep.errorType = "ALREADY_DEFINED_EXCEPTION" ->
            THROW_ALREADY_DEFINED_EXCEPTION(rep.errorNode)
      [] rep.errorType = "NOT_DEFINED_EXCEPTION" ->
            THROW_NOT_DEFINED_EXCEPTION(rep.errorNode)
      [] rep.errorType = "TYPE_MISMATCH_EXCEPTION" ->
            THROW_EXCEPTION("TypeMismatchException", rep)
      [] rep.errorType = "STATEMENT_MISPLACEMENT_EXCEPTION" ->
            THROW_EXCEPTION("StatementMisplacementException", rep)
      [] rep.errorType = "WRONG_ACCESSOR_EXCEPTION" ->
            THROW_EXCEPTION("WrongAccessorException", rep)
      [] rep.errorType = "WRONG_ARGUMENT_EXCPEPTION" ->
            THROW_EXCEPTION("WrongArgumentException", rep)
      [] rep.errorType = "MODIFIER_EXCEPTION" ->
            THROW_EXCEPTION("ModifierException", rep)
      [] rep.errorType = "NO_SUCH_ARRAY_DIMENSION_EXCEPTION" ->
            THROW_EXCEPTION("NoSuchArrayDimension", rep)
      [] OTHER -> THROW_EXCEPTION("Exception", rep)

(***************************************************************************)
(* What one case of SA_manage_runnable leaves behind: the forest, the      *)
(* table whose runnable it descends into (0 if it returns without          *)
(* descending), the diagnostics it printed, and whether the process goes   *)
(* on ("run"), died ("crash") or called exit ("exit").                     *)
(***************************************************************************)
Outcome(T, enter, thrown, state) ==
    [tables |-> T, enter |-> enter, diags |-> thrown, status |-> state]

\* A return after which the walk does not go on if something was reported
StopsOnDiagnostic(T, thrown) ==
    Outcome(T, 0, thrown, IF thrown = <<>> THEN "run" ELSE "stopped")

\* THROW_...(...); return;  and the plain return of a handler
Returns(T, thrown) == Outcome(T, 0, thrown, "run")

Dies(T) == Outcome(T, 0, <<>>, "crash")

\* THROW_ASSIGNED_EXCEPTION(rep); return;
ReturnsAssigned(T, rep) ==
    IF rep.errorNode = NULL THEN Dies(T)
    ELSE Returns(T, <<THROW_ASSIGNED_EXCEPTION(rep)>>)

\* The index a table appended to the forest gets
NewTable(T) == Len(T) + 1

Named(table, name) == [table EXCEPT !.name = Ptr(name)]

AddSymbol(T, table, entry) ==
    [T EXCEPT ![table].symbolTable = HM_add_entry(entry.name, entry, @)]

AddParam(T, table, entry) ==
    [T EXCEPT ![table].paramList = L_add_item(@, entry)]

RunnableNode == Leaf("_RUNNABLE_NODE_", "RUNNABLE")

\* A handler that enters the variable before it evaluates the initializer
EntersBeforeEvaluating(T, table, varNode, ub) ==
    IF T[table].type = "ENUM"
    THEN Returns(T, <<THROW_STATEMENT_MISPLACEMENT_EXEPTION(Ptr(varNode),
                        "Vars are not allowed within enums.")>>)
    ELSE LET name == varNode.value
             vis == SA_get_visibility(varNode.leftNode)
             type == SA_get_VarType(IF varNode.details = <<>> THEN NULL
                                    ELSE varNode.details[1])
             actualTable == IF T[table].type = "TRY" THEN T[table].parent ELSE table
             assignmentRep == SA_evaluate_assignment(type, varNode.rightNode, actualTable, T, ub)
             entry == SA_create_semantic_entry(name, type, vis, "VARIABLE", 0)
             entered == AddSymbol(T, table, entry)
         IN IF vis = "EXIT_FAILURE" THEN Outcome(T, 0, <<>>, "exit")
            ELSE IF SA_is_obj_already_defined(name, T, actualTable)
            THEN Returns(T, <<THROW_ALREADY_DEFINED_EXCEPTION(Ptr(varNode))>>)
            ELSE IF varNode.rightNode # NULL /\ Crashed(assignmentRep) THEN Dies(entered)
            ELSE IF varNode.rightNode # NULL /\ assignmentRep.status = "ERROR"
            THEN ReturnsAssigned(entered, assignmentRep)
            ELSE Returns(entered, <<>>)

(***************************************************************************)
(* SA_add_normal_variable_to_table                                         *)
(***************************************************************************)
SA_add_normal_variable_to_table(T, table, varNode, ub) ==
    IF T[table].type = "ENUM"
    THEN Returns(T, <<THROW_STATEMENT_MISPLACEMENT_EXEPTION(Ptr(varNode),
                        "Vars are not allowed within enums.")>>)
    ELSE LET name == varNode.value
             vis == SA_get_visibility(varNode.leftNode)
             type == SA_get_VarType(IF varNode.details = <<>> THEN NULL
                                    ELSE varNode.details[1])
             actualTable == IF T[table].type = "TRY" THEN T[table].parent ELSE table
             assignmentRep == SA_evaluate_assignment(type, varNode.rightNode, actualTable, T, ub)
             entry == SA_create_semantic_entry(name, type, vis, "VARIABLE", 0)
         IN IF vis = "EXIT_FAILURE" THEN Outcome(T, 0, <<>>, "exit")
            ELSE IF SA_is_obj_already_defined(name, T, actualTable)
            THEN Returns(T, <<THROW_ALREADY_DEFINED_EXCEPTION(Ptr(varNode))>>)
            ELSE IF varNode.rightNode # NULL /\ Crashed(assignmentRep) THEN Dies(T)
            ELSE IF varNode.rightNode # NULL /\ assignmentRep.status = "ERROR"
            THEN ReturnsAssigned(T, assignmentRep)
            ELSE Returns(AddSymbol(T, table, entry), <<>>)

(***************************************************************************)
(* SA_add_function_to_table                                                *)
(***************************************************************************)
SA_add_function_to_table(T, table, functionNode) ==
    IF T[table].type \notin {"MAIN", "CLASS"}
    THEN Returns(T, <<THROW_STATEMENT_MISPLACEMENT_EXEPTION(Ptr(functionNode),
                        "Functions are only allowed in classes and the outest scope.")>>)
    ELSE LET name == functionNode.value
             vis == SA_get_visibility(functionNode.leftNode)
             type == SA_get_VarType(IF functionNode.details = <<>> THEN NULL
                                    ELSE functionNode.details[1])
             params == SA_get_params(functionNode)
             scopeTable == Named(SA_create_new_scope_table("FUNCTION", table, params), name)
             referenceEntry == SA_create_semantic_entry(name, type, vis, "FUNCTION", NewTable(T))
         IN IF vis = "EXIT_FAILURE" THEN Outcome(T, 0, <<>>, "exit")
            ELSE Outcome(AddSymbol(Append(T, scopeTable), table, referenceEntry),
                         NewTable(T), <<>>, "run")

(***************************************************************************)
(* SA_add_class_to_table                                                   *)
(***************************************************************************)
SA_add_class_to_table(T, table, classNode) ==
    IF T[table].type # "MAIN"
    THEN Returns(T, <<THROW_STATEMENT_MISPLACEMENT_EXEPTION(Ptr(classNode),
                        "Classes have to be in the outest scope.")>>)
    ELSE LET name == classNode.value
             vis == SA_get_visibility(classNode.leftNode)
             params == SA_get_params(classNode)
             scopeTable == Named(SA_create_new_scope_table("CLASS", table, params), name)
             referenceEntry == SA_create_semantic_entry(name, nullDec, vis, "CLASS", NewTable(T))
         IN IF vis = "EXIT_FAILURE" THEN Outcome(T, 0, <<>>, "exit")
            ELSE IF SA_is_obj_already_defined(name, T, table)
            THEN Returns(T, <<THROW_ALREADY_DEFINED_EXCEPTION(Ptr(classNode))>>)
            ELSE Outcome(AddSymbol(Append(T, scopeTable), table, referenceEntry),
                         NewTable(T), <<>>, "run")

(***************************************************************************)
(* SA_contains_constructor_of_type                                         *)
(***************************************************************************)
RECURSIVE ConstructorLoop(_, _, _, _, _, _)
ConstructorLoop(i, classTable, paramHolder, fncctype, T, ub) ==
    IF i > Len(T[classTable].paramList)
    THEN SA_create_semantic_report(nullDec, "NA", NULL, "NONE", NULL)
    ELSE LET entry == T[classTable].paramList[i]
             entryTable == entry.reference
             fncCallRep == Invoke("SA_evaluate_function_call",
                                  <<paramHolder, Ptr(entry), classTable, fncctype, T, ub>>)
         IN IF entry.dec.type # "CONSTRUCTOR_PARAM"
            THEN ConstructorLoop(i + 1, classTable, paramHolder, fncctype, T, ub)
            ELSE IF entryTable = 0
            THEN ConstructorLoop(i + 1, classTable, paramHolder, fncctype, T, ub)
            ELSE IF Len(T[entryTable].paramList) # SA_get_node_param_count(paramHolder[1])
            THEN ConstructorLoop(i + 1, classTable, paramHolder, fncctype, T, ub)
            ELSE IF Crashed(fncCallRep) THEN fncCallRep
            ELSE IF fncCallRep.status = "ERROR"
            THEN ConstructorLoop(i + 1, classTable, paramHolder, fncctype, T, ub)
            ELSE [fncCallRep EXCEPT !.status = "SUCCESS"]

\* the search that starts behind the first entry of the parameter list
SkipsFirstConstructor(T, classTable, paramHolder, fncctype, ub) ==
    IF classTable = 0 \/ paramHolder = NULL
    THEN SA_create_semantic_report(nullDec, "NA", NULL, "NONE", NULL)
    ELSE ConstructorLoop(2, classTable, paramHolder, fncctype, T, ub)

SA_contains_constructor_of_type(T, classTable, paramHolder, fncctype, ub) ==
    IF classTable = 0 \/ paramHolder = NULL
    THEN SA_create_semantic_report(nullDec, "NA", NULL, "NONE", NULL)
    ELSE ConstructorLoop(1, classTable, paramHolder, fncctype, T, ub)

(***************************************************************************)
(* SA_add_constructor_to_table                                             *)
(***************************************************************************)
SA_add_constructor_to_table(T, table, constructorNode, ub) ==
    IF T[table].type # "CLASS"
    THEN Returns(T, <<THROW_STATEMENT_MISPLACEMENT_EXEPTION(Ptr(constructorNode),
                        "Constructors are only allowed in classes.")>>)
    ELSE LET hasConstructor == SA_contains_constructor_of_type(T, table, Ptr(constructorNode),
                                                               "CONSTRUCTOR_CALL", ub)
             params == SA_get_params(constructorNode)
             scopeTable == SA_create_new_scope_table("CONSTRUCTOR", table, params)
             entry == SA_create_semantic_entry("Constructor",
                        Dec("CONSTRUCTOR_PARAM", 0, "NULL"), "GLOBAL", "CONSTRUCTOR",
                        NewTable(T))
         IN IF Crashed(hasConstructor) THEN Dies(T)
            ELSE IF hasConstructor.status = "SUCCESS"
            THEN Returns(T, <<THROW_ALREADY_DEFINED_EXCEPTION(Ptr(constructorNode))>>)
            ELSE Outcome(AddParam(Append(T, scopeTable), table, entry),
                         NewTable(T), <<>>, "run")

(***************************************************************************)
(* SA_add_instance_variable_to_table                                       *)
(***************************************************************************)
SA_add_instance_variable_to_table(T, table, varNode, ub) ==
    LET name == varNode.value
        vis == SA_get_visibility(varNode.leftNode)
        type == Dec("CLASS_REF", 0, varNode.value)
        actualTable == IF T[table].type = "TRY" THEN T[table].parent ELSE table
        valueNode == varNode.rightNode
        topTable == SA_get_next_table_of_type(T, table, "MAIN")
        classEntry == SA_get_entry_if_available(valueNode, T, topTable)
        containsConstructor ==
            SA_contains_constructor_of_type(T, classEntry[1].reference, valueNode,
                                            "CONSTRUCTOR_CHECK_CALL", ub)
        entry == SA_create_semantic_entry(name, type, vis, "VARIABLE", 0)
        isCall == valueNode # NULL /\ valueNode[1].type = "_FUNCTION_CALL_NODE_"
    IN IF vis = "EXIT_FAILURE" THEN Outcome(T, 0, <<>>, "exit")
       ELSE IF SA_is_obj_already_defined(name, T, actualTable)
       THEN Returns(T, <<THROW_ALREADY_DEFINED_EXCEPTION(Ptr(varNode))>>)
       ELSE IF isCall /\ classEntry = NULL
       THEN Returns(T, <<THROW_NOT_DEFINED_EXCEPTION(valueNode)>>)
       ELSE IF isCall /\ Crashed(containsConstructor) THEN Dies(T)
       ELSE IF isCall /\ containsConstructor.status = "NA"
       THEN Returns(T, <<THROW_NOT_DEFINED_EXCEPTION(valueNode)>>)
       ELSE Returns(AddSymbol(T, table, entry), <<>>)

(***************************************************************************)
(* SA_add_enum_to_table with SA_add_enumerators_to_enum_table              *)
(***************************************************************************)
RECURSIVE SA_add_enumerators_to_enum_table(_, _, _)
SA_add_enumerators_to_enum_table(enumTable, topNode, i) ==
    IF i > Len(topNode.details) THEN [table |-> enumTable, thrown |-> <<>>]
    ELSE LET enumerator == topNode.details[i]
         IN IF enumerator = NULL
            THEN SA_add_enumerators_to_enum_table(enumTable, topNode, i + 1)
            ELSE IF HM_contains_key(enumerator[1].value, enumTable.symbolTable)
            THEN [table |-> enumTable,
                  thrown |-> <<THROW_ALREADY_DEFINED_EXCEPTION(enumerator)>>]
            ELSE SA_add_enumerators_to_enum_table(
                    [enumTable EXCEPT !.symbolTable =
                        HM_add_entry(enumerator[1].value,
                            SA_create_semantic_entry(enumerator[1].value,
                                Dec("INTEGER", 0, "NULL"), "P_GLOBAL", "ENUMERATOR", 0), @)],
                    topNode, i + 1)

SA_add_enum_to_table(T, table, enumNode) ==
    IF T[table].type # "MAIN"
    THEN Returns(T, <<THROW_STATEMENT_MISPLACEMENT_EXEPTION(Ptr(enumNode),
                        "Enums have to be in the outest scope.")>>)
    ELSE LET name == enumNode.value
             filled == SA_add_enumerators_to_enum_table(
                            SA_create_new_scope_table("ENUM", table, <<>>), enumNode, 1)
             entry == SA_create_semantic_entry(name, nullDec, "P_GLOBAL", "ENUM", NewTable(T))
         IN IF SA_is_obj_already_defined(name, T, table)
            THEN Returns(T, <<THROW_ALREADY_DEFINED_EXCEPTION(Ptr(enumNode))>>)
            ELSE Returns(AddSymbol(Append(T, filled.table), table, entry), filled.thrown)

(***************************************************************************)
(* SA_add_include_to_table                                                 *)
(***************************************************************************)
RECURSIVE ActualInclude(_)
ActualInclude(cacheNode) ==
    IF cacheNode[1].rightNode = NULL THEN cacheNode[1].leftNode
    ELSE ActualInclude(cacheNode[1].rightNode)

SA_add_include_to_table(T, table, includeNode, ub) ==
    IF T[table].type # "MAIN"
    THEN Returns(T, <<THROW_STATEMENT_MISPLACEMENT_EXEPTION(Ptr(includeNode),
                        "Includes have to be in the outest scope.")>>)
    ELSE LET actualInclude == ActualInclude(Ptr(includeNode))
             name == actualInclude[1].value
             entry == SA_create_semantic_entry(name, nullDec, "P_GLOBAL", "EXTERNAL", 0)
         IN IF actualInclude = NULL
            THEN (IF ub = "crash" THEN Dies(T) ELSE Returns(T, <<>>))
            ELSE IF SA_is_obj_already_defined(name, T, table)
            THEN Returns(T, <<THROW_ALREADY_DEFINED_EXCEPTION(Ptr(includeNode))>>)
            ELSE Returns(AddSymbol(T, table, entry), <<>>)

(***************************************************************************)
(* The neighbour parentNode->details[index +- 1] of a statement.  Inside   *)
(* the array it is the node stored there; the array has no slot before its *)
(* first or after its last statement, and what is read there is undefined: *)
(* the process dies, or the word read is NULL ("zero"), or it points to    *)
(* something that passes the test made on it ("nonzero").                  *)
(***************************************************************************)
Neighbour(inBounds, type) == [inBounds |-> inBounds, type |-> type]

OutOfBounds == Neighbour(FALSE, "NONE")

NeighbourIs(neighbour, types, ub) ==
    IF neighbour.inBounds THEN neighbour.type \in types ELSE ub = "nonzero"

\* reading ->type through the word read outside the array
NeighbourDies(neighbour, ub) == ~neighbour.inBounds /\ ub = "crash"

\* the word read outside the array is NULL
NeighbourNull(neighbour, ub) == ~neighbour.inBounds /\ ub = "zero"

(***************************************************************************)
(* SA_add_try_statement                                                    *)
(***************************************************************************)
SA_add_try_statement(T, table, tryNode, estimatedCatchNode, ub) ==
    IF T[table].type = "ENUM"
    THEN Returns(T, <<THROW_STATEMENT_MISPLACEMENT_EXEPTION(Ptr(tryNode),
                        "Try statements are not allowed in enums.")>>)
    ELSE LET tempTable == SA_create_new_scope_table("TRY", table, <<>>)
             tryEntry == SA_create_semantic_entry("try", nullDec, "P_GLOBAL", "WHILE",
                                                  NewTable(T))
             thrown == IF NeighbourIs(estimatedCatchNode, {"_CATCH_NODE_"}, ub) THEN <<>>
                       ELSE <<THROW_STATEMENT_MISPLACEMENT_EXEPTION(Ptr(tryNode),
                                "Try statements have to have a catch statement.")>>
         IN IF NeighbourDies(estimatedCatchNode, ub) THEN Dies(T)
            ELSE Outcome(AddSymbol(Append(T, tempTable), table, tryEntry),
                         NewTable(T), thrown, "run")

(***************************************************************************)
(* SA_add_catch_statement                                                  *)
(***************************************************************************)
SA_add_catch_statement(T, table, catchNode, estimatedTryNode, ub) ==
    IF T[table].type = "ENUM"
    THEN Returns(T, <<THROW_STATEMENT_MISPLACEMENT_EXEPTION(Ptr(catchNode),
                        "Catch statements are not allowed in enums.")>>)
    ELSE LET errorHandleNode == catchNode.leftNode[1]
             errorType == Dec("CLASS_REF", 0, errorHandleNode.leftNode[1].value)
             param == SA_create_semantic_entry(errorHandleNode.value, errorType, "P_GLOBAL",
                                               "VARIABLE", 0)
             tempTable == SA_create_new_scope_table("CATCH", table, <<>>)
             catchEntry == SA_create_semantic_entry("catch", nullDec, "P_GLOBAL", "WHILE",
                                                    NewTable(T))
         IN IF NeighbourDies(estimatedTryNode, ub) THEN Dies(T)
            ELSE IF ~NeighbourIs(estimatedTryNode, {"_TRY_NODE_"}, ub)
            THEN Returns(T, <<THROW_STATEMENT_MISPLACEMENT_EXEPTION(Ptr(catchNode),
                                "Catch statements have to be placed after a try statement.")>>)
            ELSE Outcome(AddSymbol(Append(T, [tempTable EXCEPT !.paramList =
                                                    L_add_item(@, param)]),
                                   table, catchEntry),
                         NewTable(T), <<>>, "run")

(***************************************************************************)
(* SA_add_while_or_do_to_table                                             *)
(***************************************************************************)
SA_add_while_or_do_to_table(T, table, whileDoNode, ub) ==
    IF T[table].type = "ENUM"
    THEN Returns(T, <<THROW_STATEMENT_MISPLACEMENT_EXEPTION(Ptr(whileDoNode),
                        "While and Do statements are not allowed in enums.")>>)
    ELSE LET conditionRep == SA_evaluate_chained_condition(table, whileDoNode.leftNode, T, ub)
             name == IF whileDoNode.type = "_WHILE_STMT_NODE_" THEN "while" ELSE "do"
             type == IF whileDoNode.type = "_WHILE_STMT_NODE_" THEN "WHILE" ELSE "DO"
             whileTable == SA_create_new_scope_table(type, table, <<>>)
             whileEntry == SA_create_semantic_entry(name, nullDec, "P_GLOBAL", type, NewTable(T))
         IN IF Crashed(conditionRep) THEN Dies(T)
            ELSE IF conditionRep.status = "ERROR" THEN ReturnsAssigned(T, conditionRep)
            ELSE Outcome(AddSymbol(Append(T, whileTable), table, whileEntry),
                         NewTable(T), <<>>, "run")

(***************************************************************************)
(* SA_add_if_to_table                                                      *)
(***************************************************************************)
SA_add_if_to_table(T, table, ifNode, ub) ==
    LET misplaced == IF T[table].type = "ENUM"
                     THEN <<THROW_STATEMENT_MISPLACEMENT_EXEPTION(Ptr(ifNode),
                                "If statements are not allowed in enums.")>>
                     ELSE <<>>
        conditionRep == SA_evaluate_chained_condition(table, ifNode.leftNode, T, ub)
        ifTable == SA_create_new_scope_table("IF", table, <<>>)
        ifEntry == SA_create_semantic_entry("if", nullDec, "P_GLOBAL", "IF", NewTable(T))
    IN IF Crashed(conditionRep) \/ (conditionRep.status = "ERROR" /\ conditionRep.errorNode = NULL)
       THEN Outcome(T, 0, misplaced, "crash")
       ELSE IF conditionRep.status = "ERROR"
       THEN Returns(T, misplaced \o <<THROW_ASSIGNED_EXCEPTION(conditionRep)>>)
       ELSE Outcome(AddSymbol(Append(T, ifTable), table, ifEntry),
                    NewTable(T), misplaced, "run")

(***************************************************************************)
(* SA_add_else_if_to_table                                                 *)
(***************************************************************************)
SA_add_else_if_to_table(T, table, elseIfNode, estimatedIfNode, ub) ==
    LET conditionRep == SA_evaluate_chained_condition(table, elseIfNode.leftNode, T, ub)
        elseIfTable == SA_create_new_scope_table("ELSE_IF", table, <<>>)
        elseIfEntry == SA_create_semantic_entry("else_if", nullDec, "P_GLOBAL", "ELSE_IF",
                                                NewTable(T))
    IN IF NeighbourDies(estimatedIfNode, ub) \/ NeighbourNull(estimatedIfNode, ub)
       THEN Dies(T)
       ELSE IF ~NeighbourIs(estimatedIfNode, {"_IF_STMT_NODE_", "_ELSE_IF_STMT_NODE_"}, ub)
       THEN Returns(T, <<THROW_STATEMENT_MISPLACEMENT_EXEPTION(Ptr(elseIfNode),
                "Else-if statements are only allowed after an if and else-if statement.")>>)
       ELSE IF Crashed(conditionRep) THEN Dies(T)
       ELSE IF conditionRep.status = "ERROR" THEN ReturnsAssigned(T, conditionRep)
       ELSE Outcome(AddSymbol(Append(T, elseIfTable), table, elseIfEntry),
                    NewTable(T), <<>>, "run")

(***************************************************************************)
(* SA_add_else_to_table                                                    *)
(***************************************************************************)
SA_add_else_to_table(T, table, elseNode, estimatedIfOrElseIfNode, ub) ==
    LET elseTable == SA_create_new_scope_table("ELSE", table, <<>>)
        elseEntry == SA_create_semantic_entry("else", nullDec, "P_GLOBAL", "ELSE", NewTable(T))
    IN IF NeighbourDies(estimatedIfOrElseIfNode, ub) \/ NeighbourNull(estimatedIfOrElseIfNode, ub)
       THEN Dies(T)
       ELSE IF ~NeighbourIs(estimatedIfOrElseIfNode,
                            {"_IF_STMT_NODE_", "_ELSE_IF_STMT_NODE_"}, ub)
       THEN Returns(T, <<THROW_STATEMENT_MISPLACEMENT_EXEPTION(Ptr(elseNode),
                "Else statements are only allowed after an if and else-if statement.")>>)
       ELSE Outcome(AddSymbol(Append(T, elseTable), table, elseEntry),
                    NewTable(T), <<>>, "run")

(***************************************************************************)
(* SA_check_break_or_continue_to_table                                     *)
(***************************************************************************)
SA_check_break_or_continue_to_table(T, table, breakOrContinueNode) ==
    IF ~SA_is_break_or_continue_placement_valid(T, table)
    THEN Returns(T, <<THROW_STATEMENT_MISPLACEMENT_EXEPTION(Ptr(breakOrContinueNode),
            IF breakOrContinueNode.type = "_BREAK_STMT_NODE_"
            THEN "Breaks are only allowed within a loop scope."
            ELSE "Continues are only allowed within a loop scope.")>>)
    ELSE Returns(T, <<>>)

(***************************************************************************)
(* The trees the tree builder makes of the statements and terms the model  *)
(* feeds to the analyzer.  The body of a scope statement is not part of    *)
(* its node here: its statements are chosen one by one while the analyzer  *)
(* walks it.                                                               *)
(***************************************************************************)
Iden(name) == Leaf("_IDEN_NODE_", name)

Num(digits) == Leaf("_NUMBER_NODE_", digits)

Float(digits) == Leaf("_FLOAT_NODE_", digits)

Str(text) == Leaf("_STRING_NODE_", text)

NullLit == Leaf("_NULL_NODE_", "null")

BoolLit(word) == Leaf("_BOOL_NODE_", word)

Plus(l, r) == Node("_PLUS_NODE_", "+", Ptr(l), Ptr(r), <<>>)

Pointers(nodes) == [i \in 1..Len(nodes) |-> Ptr(nodes[i])]

Call(name, args) == Node("_FUNCTION_CALL_NODE_", name, NULL, NULL, Pointers(args))

ClassAccess(first, second) ==
    Node("_MEM_CLASS_ACC_NODE_", "MEMCLASSACC", Ptr(first),
         Ptr(Node("_CLASS_ACCESS_NODE_", "->", Ptr(second), NULL, <<>>)), <<>>)

Modifier(word) == IF word = "" THEN NULL ELSE Ptr(ModifierNode(word))

TypeOf(name) == IF name = "" THEN NULL ELSE Ptr(VarTypeNode(name, 0))

TypeDetails(name) == IF name = "" THEN <<>> ELSE <<TypeOf(name)>>

Var(kind, word, type, name, term) ==
    Node(kind, name, Modifier(word), term, TypeDetails(type))

Param(name, type) == Node("_IDEN_NODE_", name, NULL, NULL, TypeDetails(type))

Function(word, name, type, params) ==
    Node("_FUNCTION_NODE_", name, Modifier(word), NULL,
         <<TypeOf(type)>> \o Pointers(params) \o <<Ptr(RunnableNode)>>)

Class(word, name) == Node("_CLASS_NODE_", name, Modifier(word), Ptr(RunnableNode), <<>>)

ConstructorParam(name, type) == Node("_PARAM_NODE_", name, NULL, NULL, TypeDetails(type))

Constructor(params) ==
    Node("_CLASS_CONSTRUCTOR_NODE_", "CONSTRUCTOR", NULL, Ptr(RunnableNode), Pointers(params))

Enum(name, enumerators) ==
    Node("_ENUM_NODE_", name, NULL, NULL,
         [i \in 1..Len(enumerators) |-> Ptr(Leaf("_ENUMERATOR_NODE_", enumerators[i]))])

Include(name) ==
    Node("_INCLUDE_NODE_", "include", Ptr(Iden(name)), NULL, <<>>)

InstanceVar(name, term) ==
    Node("_VAR_CLASS_INSTANCE_NODE_", name, NULL, Ptr(term), <<>>)

Equals(l, r) == Node("_EQUALS_CONDITION_NODE_", "==", Ptr(l), Ptr(r), <<>>)

While(condition) ==
    Node("_WHILE_STMT_NODE_", "WHILE_STMT", Ptr(condition), Ptr(RunnableNode), <<>>)

Do(condition) ==
    Node("_DO_STMT_NODE_", "DO_STMT", Ptr(condition), Ptr(RunnableNode), <<>>)

If(condition) ==
    Node("_IF_STMT_NODE_", "IF_STMT", Ptr(condition), Ptr(RunnableNode), <<>>)

ElseIf(condition) ==
    Node("_ELSE_IF_STMT_NODE_", "ELSE_IF_STMT", Ptr(condition), Ptr(RunnableNode), <<>>)

Else == Node("_ELSE_STMT_NODE_", "ELSE_STMT", NULL, Ptr(RunnableNode), <<>>)

Try == Leaf("_TRY_NODE_", "RUNNABLE")

Catch(name, type) ==
    Node("_CATCH_NODE_", "CATCH",
         Ptr(Node("_IDEN_NODE_", name, Ptr(Leaf("_IDEN_NODE_", type)), NULL, <<>>)),
         Ptr(RunnableNode), <<>>)

Break == Leaf("_BREAK_STMT_NODE_", "BREAK")

Continue == Leaf("_CONTINUE_STMT_NODE_", "CONTINUE")

For == Node("_FOR_STMT_NODE_", "FOR", NULL, Ptr(RunnableNode), <<>>)

Return(term) == Node("_RETURN_STMT_NODE_", "RETURN_STATMENT", Ptr(term), NULL, <<>>)

\* The chain of k array accesses [0]...[0] of PG_create_array_access_tree
RECURSIVE ArrayAccesses(_)
ArrayAccesses(k) ==
    IF k = 0 THEN NULL
    ELSE Ptr(Node("_ARRAY_ACCESS_NODE_", "ARR_ACC", Ptr(Num("0")), ArrayAccesses(k - 1), <<>>))

\* name[0]...[0] with k accesses: the chain hangs at the left of the
\* identifier
Indexed(name, k) == Node("_IDEN_NODE_", name, ArrayAccesses(k), NULL, <<>>)

\* var name:type[]...[] = term, the type with dims dimensions
ArrayVar(type, dims, name, term) ==
    Node("_VAR_NODE_", name, NULL, term, <<Ptr(VarTypeNode(type, dims))>>)

\* The runnable the tree builder makes of the statements of a block
Runnable(statements) ==
    Node("_RUNNABLE_NODE_", "RUNNABLE", NULL, NULL, Pointers(statements))

\* A scope statement together with the statements of its body: the runnable
\* is the last detail of a function and the right node of every other
\* scope statement.  The analyzer never walks the body of a for statement,
\* so that body is given with the node.
Holding(node, statements) ==
    IF node.type = "_FUNCTION_NODE_"
    THEN [node EXCEPT !.details[Len(node.details)] = Ptr(Runnable(statements))]
    ELSE [node EXCEPT !.rightNode = Ptr(Runnable(statements))]

(***************************************************************************)
(* The type comparison harness: any two VarDecs the analyzer can build     *)
(* are handed to SA_are_VarTypes_equal in strict and in lenient mode.      *)
(***************************************************************************)
AllDecs ==
    {Dec(t, d, "NULL") : t \in PrimitiveKinds, d \in 0..MaxDim}
    \cup {Dec("CLASS_REF", d, c) : d \in 0..MaxDim, c \in ClassNames}

IdleWalk ==
    /\ tables = <<>>
    /\ cur = 0
    /\ sib = <<>>
    /\ diags = <<>>
    /\ last = <<>>
    /\ status = "done"
    /\ nstmt = 0

IdleSizing ==
    /\ INPUT_BUFFER = <<>>
    /\ bufferPos = 0
    /\ tokenNumber = 0
    /\ ARRAY_OF_INDIVIDUAL_TOKEN_SIZES = <<>>
    /\ sized = <<>>
    /\ sizing = "idle"

IdleParse ==
    /\ tokenArray = <<>>
    /\ stage = "idle"
    /\ built = <<>>

InitTypes ==
    /\ IdleParse
    /\ IdleSizing
    /\ type1 \in AllDecs
    /\ type2 \in AllDecs
    /\ phase = "input"
    /\ result = FALSE
    /\ IdleWalk

CallStrict ==
    /\ phase = "input"
    /\ result' = SA_are_VarTypes_equal(type1, type2, TRUE)
    /\ phase' = "strict"
    /\ UNCHANGED <<type1, type2>>
    /\ UNCHANGED walkVars
    /\ UNCHANGED parseVars
    /\ UNCHANGED sizeVars

CallLenient ==
    /\ phase = "input"
    /\ result' = SA_are_VarTypes_equal(type1, type2, FALSE)
    /\ phase' = "lenient"
    /\ UNCHANGED <<type1, type2>>
    /\ UNCHANGED walkVars
    /\ UNCHANGED parseVars
    /\ UNCHANGED sizeVars

NextTypes == CallStrict \/ CallLenient

SpecTypes == InitTypes /\ [][NextTypes]_vars

(***************************************************************************)
(* The walk of SA_manage_runnable.  CheckSemantic creates the MAIN table   *)
(* and walks the root runnable; every step of the walk handles the next    *)
(* statement of the runnable of table `cur` (one case of the switch) or    *)
(* finds the runnable at its end.  For every table `sib` keeps what the    *)
(* neighbour checks read: the type of the statement before the loop index  *)
(* and, once a try has looked ahead, the statement that has to follow.     *)
(***************************************************************************)
IdleTypes ==
    /\ type1 = nullDec
    /\ type2 = nullDec
    /\ phase = "idle"
    /\ result = FALSE

FirstSibling == [prev |-> "NONE", next |-> "ANY"]

\* CheckSemantic
CheckSemantic ==
    /\ tables = <<SA_create_new_scope_table("MAIN", 0, <<>>)>>
    /\ cur = 1
    /\ sib = <<FirstSibling>>
    /\ diags = <<>>
    /\ last = NULL
    /\ status = "run"
    /\ nstmt = 0
    /\ IdleTypes
    /\ IdleParse
    /\ IdleSizing

\* details[index - 1] of the statement the loop is at
Before == IF sib[cur].prev = "NONE" THEN OutOfBounds ELSE Neighbour(TRUE, sib[cur].prev)

\* details[index + 1], when `follows` is the statement after this one
After(follows) == IF follows = "END" THEN OutOfBounds ELSE Neighbour(TRUE, follows)

\* One round of the loop of SA_manage_runnable: `node` is details[i], `out`
\* what its case of the switch leaves behind, `follows` the statement the
\* case has seen at details[i + 1] ("ANY" if it has not looked).
Statement(node, out, follows, limit) ==
    /\ status = "run"
    /\ nstmt < limit
    /\ sib[cur].next \in {"ANY", node.type}
    /\ Len(out.tables) <= MaxTables
    /\ tables' = out.tables
    /\ diags' = out.diags
    /\ status' = out.status
    /\ cur' = IF out.enter # 0 /\ out.status = "run" THEN out.enter ELSE cur
    /\ sib' = LET here == [sib EXCEPT ![cur] = [prev |-> node.type, next |-> follows]]
              IN IF Len(out.tables) > Len(tables) THEN Append(here, FirstSibling) ELSE here
    /\ last' = Ptr([node |-> node, table |-> cur, before |-> tables])
    /\ nstmt' = nstmt + 1
    /\ UNCHANGED typeVars
    /\ UNCHANGED parseVars
    /\ UNCHANGED sizeVars

\* The loop index reaches detailsCount: SA_manage_runnable returns to the
\* case that called it, CheckSemantic is through when MAIN's walk returns.
EndRunnable ==
    /\ status = "run"
    /\ sib[cur].next \in {"ANY", "END"}
    /\ IF tables[cur].type = "MAIN"
       THEN status' = "done" /\ cur' = cur
       ELSE status' = status /\ cur' = tables[cur].parent
    /\ diags' = <<>>
    /\ last' = NULL
    /\ UNCHANGED <<tables, sib, nstmt>>
    /\ UNCHANGED typeVars
    /\ UNCHANGED parseVars
    /\ UNCHANGED sizeVars

(***************************************************************************)
(* The cases of the switch in SA_manage_runnable, each over the statements *)
(* in `nodes`, within a program of at most `limit` statements.             *)
(***************************************************************************)
\* case _VAR_NODE_, case _CONST_NODE_
AddNormalVariable(nodes, limit) ==
    \E node \in nodes, ub \in UBOutcomes :
        Statement(node, SA_add_normal_variable_to_table(tables, cur, node, ub), "ANY", limit)

\* case _FUNCTION_NODE_
AddFunction(nodes, limit) ==
    \E node \in nodes :
        Statement(node, SA_add_function_to_table(tables, cur, node), "ANY", limit)

\* case _CLASS_NODE_
AddClass(nodes, limit) ==
    \E node \in nodes :
        Statement(node, SA_add_class_to_table(tables, cur, node), "ANY", limit)

\* case _VAR_CLASS_INSTANCE_NODE_
AddInstanceVariable(nodes, limit) ==
    \E node \in nodes, ub \in UBOutcomes :
        Statement(node, SA_add_instance_variable_to_table(tables, cur, node, ub), "ANY", limit)

\* case _CLASS_CONSTRUCTOR_NODE_
AddConstructor(nodes, limit) ==
    \E node \in nodes, ub \in UBOutcomes :
        Statement(node, SA_add_constructor_to_table(tables, cur, node, ub), "ANY", limit)

\* case _ENUM_NODE_
AddEnum(nodes, limit) ==
    \E node \in nodes :
        Statement(node, SA_add_enum_to_table(tables, cur, node), "ANY", limit)

\* case _INCLUDE_NODE_
AddInclude(nodes, limit) ==
    \E node \in nodes, ub \in UBOutcomes :
        Statement(node, SA_add_include_to_table(tables, cur, node, ub), "ANY", limit)

\* case _TRY_NODE_: the statement after the try is a catch, another
\* statement (an if stands for it) or none
AddTry(limit) ==
    \E follows \in {"_CATCH_NODE_", "_IF_STMT_NODE_", "END"}, ub \in UBOutcomes :
        Statement(Try, SA_add_try_statement(tables, cur, Try, After(follows), ub),
                  follows, limit)

\* case _CATCH_NODE_
AddCatch(nodes, limit) ==
    \E node \in nodes, ub \in UBOutcomes :
        Statement(node, SA_add_catch_statement(tables, cur, node, Before, ub), "ANY", limit)

\* case _WHILE_STMT_NODE_, case _DO_STMT_NODE_
AddWhileOrDo(nodes, limit) ==
    \E node \in nodes, ub \in UBOutcomes :
        Statement(node, SA_add_while_or_do_to_table(tables, cur, node, ub), "ANY", limit)

\* case _IF_STMT_NODE_
AddIf(nodes, limit) ==
    \E node \in nodes, ub \in UBOutcomes :
        Statement(node, SA_add_if_to_table(tables, cur, node, ub), "ANY", limit)

\* case _ELSE_IF_STMT_NODE_
AddElseIf(nodes, limit) ==
    \E node \in nodes, ub \in UBOutcomes :
        Statement(node, SA_add_else_if_to_table(tables, cur, node, Before, ub), "ANY", limit)

\* case _ELSE_STMT_NODE_
AddElse(limit) ==
    \E ub \in UBOutcomes :
        Statement(Else, SA_add_else_to_table(tables, cur, Else, Before, ub), "ANY", limit)

\* case _CONTINUE_STMT_NODE_, case _BREAK_STMT_NODE_
CheckBreakOrContinue(limit) ==
    \E node \in {Break, Continue} :
        Statement(node, SA_check_break_or_continue_to_table(tables, cur, node), "ANY", limit)

\* default: continue;  Statements of every other type (for, return, a call
\* or an assignment on its own, check and is) are passed over, with all
\* that is in them.
SkipStatement(nodes, limit) ==
    \E node \in nodes :
        Statement(node, Returns(tables, <<>>), "ANY", limit)

(***************************************************************************)
(* The analyzer on programs of at most MaxStmts statements taken from a    *)
(* small vocabulary: variables a and b, a function f, a class A, an enum   *)
(* E.                                                                      *)
(***************************************************************************)
Terms == {NULL, Ptr(Num("3")), Ptr(Str("\"hi\"")), Ptr(Iden("a"))}

Vars ==
    {Var(kind, "", type, name, term) :
        kind \in {"_VAR_NODE_", "_CONST_NODE_"}, type \in {"", "int"},
        name \in {"a", "b"}, term \in Terms}

Conditions == {Equals(Num("1"), Num("1")), Equals(Iden("a"), Num("1"))}

Init == CheckSemantic

Next ==
    \/ AddNormalVariable(Vars, MaxStmts)
    \/ AddFunction({Function("", "f", "", <<>>), Function("", "f", "", <<Param("a", "")>>)},
                   MaxStmts)
    \/ AddClass({Class("", "A")}, MaxStmts)
    \/ AddInstanceVariable({InstanceVar("b", Call("A", <<>>))}, MaxStmts)
    \/ AddConstructor({Constructor(<<>>)}, MaxStmts)
    \/ AddEnum({Enum("E", <<"X">>), Enum("a", <<"X", "X">>)}, MaxStmts)
    \/ AddInclude({Include("a")}, MaxStmts)
    \/ AddTry(MaxStmts)
    \/ AddCatch({Catch("a", "A")}, MaxStmts)
    \/ AddWhileOrDo({While(c) : c \in Conditions} \cup {Do(c) : c \in Conditions}, MaxStmts)
    \/ AddIf({If(c) : c \in Conditions}, MaxStmts)
    \/ AddElseIf({ElseIf(c) : c \in Conditions}, MaxStmts)
    \/ AddElse(MaxStmts)
    \/ CheckBreakOrContinue(MaxStmts)
    \/ SkipStatement({For, Return(Iden("a")), Call("f", <<>>)}, MaxStmts)
    \/ EndRunnable

Spec == Init /\ [][Next]_vars

(***************************************************************************)
(* The analyzer on declarations with initializers: variables and constants *)
(* a and b, untyped or declared int or String, initialized with a number,  *)
(* a string, a sum, or the name of a variable or of the enum E.            *)
(***************************************************************************)
Initializers ==
    {Num("3"), Str("\"hi\""), Plus(Num("3"), Num("4")), Plus(Num("3"), Str("\"hi\"")),
     Iden("a"), Iden("b"), Iden("E")}

AssignVars ==
    {Var(kind, "", type, name, Ptr(term)) :
        kind \in {"_VAR_NODE_", "_CONST_NODE_"}, type \in {"", "int", "String"},
        name \in {"a", "b"}, term \in Initializers}

NextAssign ==
    \/ AddNormalVariable(AssignVars, MaxAssignStmts)
    \/ AddEnum({Enum("E", <<"X">>)}, MaxAssignStmts)
    \/ EndRunnable

SpecAssign == Init /\ [][NextAssign]_vars

(***************************************************************************)
(* The analyzer on a class A and constructors of up to MaxParams           *)
(* parameters, each untyped or declared A or B.                            *)
(***************************************************************************)
ParamNames == <<"x", "y", "z">>

ParamLists ==
    UNION {[1..n -> {"", "A", "B"}] : n \in 0..MaxParams}

Constructors ==
    {Constructor([i \in 1..Len(types) |-> ConstructorParam(ParamNames[i], types[i])]) :
        types \in ParamLists}

NextClass ==
    \/ AddClass({Class("", "A")}, MaxClassStmts)
    \/ AddConstructor(Constructors, MaxClassStmts)
    \/ EndRunnable

SpecClass == Init /\ [][NextClass]_vars

(***************************************************************************)
(* The analyzer on calls and member accesses: a class A, a function f with *)
(* or without a modifier and with no or one parameter, a field x, and uses *)
(* of f and x, in the initializer of a variable r, in a return statement   *)
(* and as a statement of their own.                                        *)
(***************************************************************************)
Arguments == {<<>>, <<Num("1")>>, <<Num("1"), Num("2")>>}

Uses ==
    {Call("f", args) : args \in Arguments}
        \cup {ClassAccess(Iden("A"), Call("f", args)) : args \in Arguments}
        \cup {ClassAccess(Iden("A"), Iden("x"))}

NextCall ==
    \/ AddClass({Class("", "A")}, MaxCallStmts)
    \/ AddFunction({Function(word, "f", "", params) :
                        word \in {"", "private", "secure"},
                        params \in {<<>>, <<Param("p", "")>>}}, MaxCallStmts)
    \/ AddNormalVariable({Var("_VAR_NODE_", word, "", "x", NULL) : word \in {"", "private"}}
                            \cup {Var("_VAR_NODE_", "", "", "r", Ptr(use)) : use \in Uses},
                         MaxCallStmts)
    \/ SkipStatement(Uses \cup {Return(use) : use \in Uses}, MaxCallStmts)
    \/ EndRunnable

SpecCall == Init /\ [][NextCall]_vars

(***************************************************************************)
(* The analyzer on statements that are reported: redeclarations, unknown   *)
(* identifiers, mismatched types, misplaced declarations and breaks, a     *)
(* wrong accessor, a wrong argument count, a hidden method and an          *)
(* over-indexed access, next to statements that are accepted.  The walk    *)
(* takes its next step whenever it has one.                                *)
(***************************************************************************)
ReportedVars ==
    {Var("_VAR_NODE_", "", type, "a", term) :
        type \in {"", "int"},
        term \in {NULL, Ptr(Str("\"hi\"")), Ptr(Iden("c")),
                  Ptr(Call("f", <<Num("1")>>)), Ptr(Call("f", <<>>)),
                  Ptr(ClassAccess(Iden("E"), Iden("X")))}}
        \cup {Var("_VAR_NODE_", "", "", "b", Ptr(Indexed("a", 1)))}

NextDiagnostics ==
    \/ AddNormalVariable(ReportedVars, MaxDiagStmts)
    \/ AddFunction({Function(word, "f", "", <<>>) : word \in {"", "private"}}, MaxDiagStmts)
    \/ AddClass({Class("", "A")}, MaxDiagStmts)
    \/ AddConstructor({Constructor(<<>>)}, MaxDiagStmts)
    \/ AddEnum({Enum("E", <<"X">>)}, MaxDiagStmts)
    \/ AddWhileOrDo({While(Equals(Iden("c"), Num("1"))), While(Equals(Num("1"), Num("1")))},
                    MaxDiagStmts)
    \/ CheckBreakOrContinue(MaxDiagStmts)
    \/ EndRunnable

SpecDiagnostics ==
    Init /\ [][NextDiagnostics]_vars /\ WF_vars(NextDiagnostics)

(***************************************************************************)
(* The analyzer on array accesses: an array a of int with up to            *)
(* MaxArrayDim dimensions, and variables b of int with up to MaxArrayDim   *)
(* dimensions initialised from a through up to MaxAccesses accesses, in    *)
(* the outermost scope and in the body of a function f.                    *)
(***************************************************************************)
ArrayVars ==
    {ArrayVar("int", d, "a", NULL) : d \in 0..MaxArrayDim}
        \cup {ArrayVar("int", e, "b", Ptr(Indexed("a", k))) :
                    e \in 0..MaxArrayDim, k \in 0..MaxAccesses}

NextArray ==
    \/ AddNormalVariable(ArrayVars, MaxArrayStmts)
    \/ AddFunction({Function("", "f", "", <<>>)}, MaxArrayStmts)
    \/ EndRunnable

SpecArray == Init /\ [][NextArray]_vars

(***************************************************************************)
(* The analyzer on break and continue: the statements that open a scope,   *)
(* break and continue in the scopes the walk enters, and for statements,   *)
(* which the walk passes over, with a break or continue in their body,     *)
(* directly or inside a statement nested in it.                            *)
(***************************************************************************)
Always == Equals(Num("1"), Num("1"))

ForBodies ==
    {<<>>, <<Break>>, <<Continue>>,
     <<Holding(If(Always), <<Break>>)>>,
     <<Holding(Function("", "g", "", <<>>), <<Break>>)>>,
     <<Holding(Function("", "g", "", <<>>), <<Holding(While(Always), <<Continue>>)>>)>>,
     <<Holding(Class("", "B"), <<Continue>>)>>,
     <<Enum("E", <<"X">>)>>, <<Include("m")>>, <<Constructor(<<>>)>>}

NextPlacement ==
    \/ AddFunction({Function("", "f", "", <<>>)}, MaxPlacementStmts)
    \/ AddClass({Class("", "A")}, MaxPlacementStmts)
    \/ AddConstructor({Constructor(<<>>)}, MaxPlacementStmts)
    \/ AddEnum({Enum("E", <<"X">>)}, MaxPlacementStmts)
    \/ AddInclude({Include("m")}, MaxPlacementStmts)
    \/ AddTry(MaxPlacementStmts)
    \/ AddCatch({Catch("e", "A")}, MaxPlacementStmts)
    \/ AddWhileOrDo({While(Always), Do(Always)}, MaxPlacementStmts)
    \/ AddIf({If(Always)}, MaxPlacementStmts)
    \/ AddElseIf({ElseIf(Always)}, MaxPlacementStmts)
    \/ AddElse(MaxPlacementStmts)
    \/ CheckBreakOrContinue(MaxPlacementStmts)
    \/ SkipStatement({Holding(For, body) : body \in ForBodies}, MaxPlacementStmts)
    \/ EndRunnable

SpecPlacement == Init /\ [][NextPlacement]_vars

NeitherExternal == type1.type # "EXTERNAL_RET" /\ type2.type # "EXTERNAL_RET"

BothClassRefs == type1.type = "CLASS_REF" /\ type2.type = "CLASS_REF"

(***************************************************************************)
(* C5: strict equality of two types, neither of them External, holds only  *)
(* if the base kinds are equal, the dimensions are equal and, when both    *)
(* are class references, the class names are equal; two references to      *)
(* different classes are never strictly equal.                             *)
(* The comparison falls through to the kind/dimension test when the class  *)
(* names differ, so the statement is violated.                             *)
(***************************************************************************)
C5_StrictNeedsSameClass ==
    (phase = "strict" /\ result /\ NeitherExternal) =>
        /\ type1.type = type2.type
        /\ type1.dimension = type2.dimension
        /\ (BothClassRefs => type1.classType = type2.classType)

(***************************************************************************)
(* C6: lenient equality accepts everything strict equality accepts, plus   *)
(* Double against Float of equal dimension and Custom against any type of  *)
(* equal dimension, in either argument position; and it never accepts two  *)
(* non-External types of differing dimensions.                             *)
(* Custom is a wildcard only as the first argument, so the statement is    *)
(* violated.                                                               *)
(***************************************************************************)
C6_LenientAcceptsCustomEitherSide ==
    phase = "lenient" =>
        /\ SA_are_strict_VarTypes_equal(type1, type2) => result
        /\ ( /\ type1.type \in {"DOUBLE", "FLOAT"}
             /\ type2.type \in {"DOUBLE", "FLOAT"}
             /\ type1.dimension = type2.dimension ) => result
        /\ ( /\ (type1.type = "CUSTOM" \/ type2.type = "CUSTOM")
             /\ type1.dimension = type2.dimension ) => result
        /\ (NeitherExternal /\ type1.dimension # type2.dimension) => ~result

(***************************************************************************)
(* What the claims about scopes speak of: the statement the walk handled   *)
(* last, the scope it stands in, the forest before it was handled, and     *)
(* whether a name is held by a table on the parent chain of a scope.       *)
(***************************************************************************)
Handled(types) == last # NULL /\ status = "run" /\ last[1].node.type \in types

Emitted(errorType) == \E i \in 1..Len(diags) : diags[i].errorType = errorType

HoldsName(table, name) ==
    \/ \E i \in 1..Len(table.symbolTable) : table.symbolTable[i].name = name
    \/ \E i \in 1..Len(table.paramList) : table.paramList[i].name = name

RECURSIVE OnChain(_, _, _)
OnChain(T, s, name) ==
    s # 0 /\ (HoldsName(T[s], name) \/ OnChain(T, T[s].parent, name))

\* a var or const whose initializer is one identifier and whose own name is new
UsesIdentifier ==
    /\ Handled({"_VAR_NODE_", "_CONST_NODE_"})
    /\ last[1].node.rightNode # NULL
    /\ last[1].node.rightNode[1].type = "_IDEN_NODE_"
    /\ ~OnChain(last[1].before, last[1].table, last[1].node.value)

\* C1: an identifier used in scope s is reported as not defined if and only
\* if no table on the parent chain from s up to Main holds its name in its
\* symbol map or its parameter list.
C1_NotDefinedIffAbsentOnChain ==
    UsesIdentifier =>
        (Emitted("NOT_DEFINED_EXCEPTION")
            <=> ~OnChain(last[1].before, last[1].table, last[1].node.rightNode[1].value))

\* C2: declaring a variable, constant, class or enum under a name that a
\* table on the parent chain of the current scope holds emits ALREADY_DEFINED
\* and adds no entry, in every kind of scope, the body of a try included.
C2_DuplicateRejectedInEveryScope ==
    (/\ \/ Handled({"_VAR_NODE_", "_CONST_NODE_"})
        \/ Handled({"_CLASS_NODE_", "_ENUM_NODE_"}) /\ last[1].table = 1
     /\ OnChain(last[1].before, last[1].table, last[1].node.value))
        => Emitted("ALREADY_DEFINED_EXCEPTION") /\ tables = last[1].before

(***************************************************************************)
(* What the claim about initializers speaks of: the operands of a term,    *)
(* their types, the declared type, and lenient equality as specified       *)
(* (Custom matches any type of the same dimension, on either side).        *)
(***************************************************************************)
RECURSIVE Operands(_)
Operands(term) ==
    IF term[1].type \in {"_PLUS_NODE_", "_MINUS_NODE_", "_MULTIPLY_NODE_", "_DIVIDE_NODE_",
                         "_MODULO_NODE_"}
    THEN Operands(term[1].leftNode) \o Operands(term[1].rightNode)
    ELSE <<term[1]>>

RECURSIVE NearestEntry(_, _, _)
NearestEntry(T, s, name) ==
    IF \E i \in 1..Len(T[s].symbolTable) : T[s].symbolTable[i].name = name
    THEN T[s].symbolTable[CHOOSE i \in 1..Len(T[s].symbolTable) :
                                T[s].symbolTable[i].name = name]
    ELSE IF \E i \in 1..Len(T[s].paramList) : T[s].paramList[i].name = name
    THEN T[s].paramList[CHOOSE i \in 1..Len(T[s].paramList) :
                            /\ T[s].paramList[i].name = name
                            /\ \A j \in 1..(i - 1) : T[s].paramList[j].name # name]
    ELSE NearestEntry(T, T[s].parent, name)

OperandType(operand, T, s) ==
    CASE operand.type = "_NUMBER_NODE_" -> Dec("INTEGER", 0, "NULL")
      [] operand.type = "_STRING_NODE_" -> Dec("STRING", 0, "NULL")
      [] operand.type = "_IDEN_NODE_" -> NearestEntry(T, s, operand.value).dec

DeclaredType(node) ==
    IF node.details = <<>> THEN Dec("CUSTOM", 0, "NULL")
    ELSE CASE node.details[1][1].value = "int" -> Dec("INTEGER", 0, "NULL")
           [] node.details[1][1].value = "String" -> Dec("STRING", 0, "NULL")
           [] OTHER -> Dec("CLASS_REF", 0, node.details[1][1].value)

LenientEqualAsSpecified(t1, t2) ==
    /\ t1.dimension = t2.dimension
    /\ \/ t1.type = t2.type
       \/ {t1.type, t2.type} \subseteq {"DOUBLE", "FLOAT"}
       \/ "CUSTOM" \in {t1.type, t2.type}

\* a var or const with an initializer, its own name new and every identifier
\* of the initializer declared
DeclaresWithInitializer ==
    /\ Handled({"_VAR_NODE_", "_CONST_NODE_"})
    /\ last[1].node.rightNode # NULL
    /\ ~OnChain(last[1].before, last[1].table, last[1].node.value)
    /\ \A i \in 1..Len(Operands(last[1].node.rightNode)) :
            LET operand == Operands(last[1].node.rightNode)[i]
            IN operand.type = "_IDEN_NODE_"
                    => OnChain(last[1].before, last[1].table, operand.value)

\* C3: a var/const declaration with an initializer emits exactly one
\* TYPE_MISMATCH, naming the declared type as expected and the type of an
\* offending operand as got, when some operand of the initializer is not
\* lenient-equal to the declared type, and emits nothing when every operand
\* is lenient-equal to it.
C3_OneTypeMismatchIffOperandDiffers ==
    DeclaresWithInitializer =>
        LET operands == Operands(last[1].node.rightNode)
            expected == DeclaredType(last[1].node)
            got(i) == OperandType(operands[i], last[1].before, last[1].table)
            offending == {i \in 1..Len(operands) : ~LenientEqualAsSpecified(expected, got(i))}
        IN IF offending = {} THEN diags = <<>>
           ELSE /\ Len(diags) = 1
                /\ diags[1].errorType = "TYPE_MISMATCH_EXCEPTION"
                /\ \E i \in offending :
                        diags[1].description =
                            Ptr("Expected " \o expected.type \o ", but got " \o got(i).type
                                \o " instead.")

(***************************************************************************)
(* What the claim about constructors speaks of: the constructor entries of *)
(* a class table, the parameter types of an entry and of a declaration,    *)
(* and strict equality as specified (equal kind, equal dimension and, for  *)
(* two class references, equal class).                                     *)
(***************************************************************************)
ConstructorEntries(T, class) ==
    {i \in 1..Len(T[class].paramList) : T[class].paramList[i].internalType = "CONSTRUCTOR"}

EntryParamTypes(T, entry) ==
    [k \in 1..Len(T[entry.reference].paramList) |-> T[entry.reference].paramList[k].dec]

DeclaredParamTypes(node) ==
    [k \in 1..Len(node.details) |-> DeclaredType(node.details[k][1])]

StrictEqualAsSpecified(t1, t2) ==
    /\ t1.type = t2.type
    /\ t1.dimension = t2.dimension
    /\ (t1.type = "CLASS_REF" => t1.classType = t2.classType)

SameSignature(p, q) ==
    /\ Len(p) = Len(q)
    /\ \A k \in 1..Len(p) : StrictEqualAsSpecified(p[k], q[k])

\* a constructor declared in a class that holds a constructor of its signature
RepeatsConstructor ==
    /\ Handled({"_CLASS_CONSTRUCTOR_NODE_"})
    /\ last[1].before[last[1].table].type = "CLASS"
    /\ \E i \in ConstructorEntries(last[1].before, last[1].table) :
            SameSignature(EntryParamTypes(last[1].before,
                                          last[1].before[last[1].table].paramList[i]),
                          DeclaredParamTypes(last[1].node))

\* C4: no two constructor entries of a class table have the same number of
\* parameters with pairwise strictly equal types in order; the declaration
\* that would make such a pair emits ALREADY_DEFINED and adds nothing.
C4_ConstructorsDifferInSignature ==
    /\ \A class \in 1..Len(tables) :
            \A i, j \in ConstructorEntries(tables, class) :
                i # j => ~SameSignature(EntryParamTypes(tables, tables[class].paramList[i]),
                                        EntryParamTypes(tables, tables[class].paramList[j]))
    /\ RepeatsConstructor => Emitted("ALREADY_DEFINED_EXCEPTION") /\ tables = last[1].before

\* a constructor of two parameters repeats the signature of the constructor
\* its class holds and is turned away
C4_RepeatedConstructorRejected ==
    /\ RepeatsConstructor
    /\ Emitted("ALREADY_DEFINED_EXCEPTION")
    /\ tables = last[1].before
    /\ Cardinality(ConstructorEntries(tables, last[1].table)) = 1
    /\ Len(DeclaredParamTypes(last[1].node)) = 2

(***************************************************************************)
(* What the claims about calls and member accesses speak of: the term a    *)
(* statement uses, the call or member in it, the entry the name stands     *)
(* for, and whether the statement stands inside the class of the member.   *)
(***************************************************************************)
\* the term of the statement handled last, NULL if it has none
UsedTerm ==
    IF last = NULL \/ status # "run" THEN NULL
    ELSE CASE /\ last[1].node.type \in {"_VAR_NODE_", "_CONST_NODE_"}
              /\ ~OnChain(last[1].before, last[1].table, last[1].node.value) ->
                    last[1].node.rightNode
           [] last[1].node.type = "_RETURN_STMT_NODE_" -> last[1].node.leftNode
           [] last[1].node.type \in {"_FUNCTION_CALL_NODE_", "_MEM_CLASS_ACC_NODE_"} ->
                    Ptr(last[1].node)
           [] OTHER -> NULL

\* the call f(...) of a function that is declared on the chain of the scope
CallsFunction ==
    /\ UsedTerm # NULL
    /\ UsedTerm[1].type = "_FUNCTION_CALL_NODE_"
    /\ OnChain(last[1].before, last[1].table, UsedTerm[1].value)
    /\ NearestEntry(last[1].before, last[1].table, UsedTerm[1].value).internalType = "FUNCTION"

DeclaredParameters ==
    Len(last[1].before[NearestEntry(last[1].before, last[1].table,
                                    UsedTerm[1].value).reference].paramList)

\* C7: a call that passes k arguments to a function declared with p
\* parameters emits WRONG_ARGUMENT if and only if k differs from p.
C7_WrongArgumentIffCountDiffers ==
    CallsFunction =>
        (Emitted("WRONG_ARGUMENT_EXCPEPTION")
            <=> Len(UsedTerm[1].details) # DeclaredParameters)

\* the table of class A, 0 if A is not declared
ClassA(T) ==
    IF \E i \in 1..Len(T[1].symbolTable) :
            T[1].symbolTable[i].name = "A" /\ T[1].symbolTable[i].internalType = "CLASS"
    THEN NearestEntry(T, 1, "A").reference
    ELSE 0

RECURSIVE Within(_, _, _)
Within(T, s, class) == s # 0 /\ (s = class \/ Within(T, T[s].parent, class))

\* the member named in the access A->member
AccessedMember == UsedTerm[1].rightNode[1].leftNode[1]

\* the access A->member to a member A declares (a call with as many
\* arguments as the method has parameters)
AccessesMemberOfA ==
    /\ UsedTerm # NULL
    /\ UsedTerm[1].type = "_MEM_CLASS_ACC_NODE_"
    /\ ClassA(last[1].before) # 0
    /\ HoldsName(last[1].before[ClassA(last[1].before)], AccessedMember.value)
    /\ LET member == NearestEntry(last[1].before, ClassA(last[1].before),
                                  AccessedMember.value)
       IN IF AccessedMember.type = "_FUNCTION_CALL_NODE_"
          THEN /\ member.internalType = "FUNCTION"
               /\ Len(AccessedMember.details) = Len(last[1].before[member.reference].paramList)
          ELSE member.internalType = "VARIABLE"

HiddenMember ==
    NearestEntry(last[1].before, ClassA(last[1].before), AccessedMember.value).visibility
        \in {"PRIVATE", "SECURE"}

\* C8: every access from outside a class to a member of it that is
\* declared private or secure, a field or a method, is rejected with
\* MODIFIER_EXCEPTION, in whatever statement it occurs, a return included.
C8_HiddenMemberRejectedOutside ==
    (/\ AccessesMemberOfA
     /\ HiddenMember
     /\ ~Within(last[1].before, last[1].table, ClassA(last[1].before)))
        => Emitted("MODIFIER_EXCEPTION")

\* the call f(...) made inside class A of a method f that A declares
CallsOwnMethod ==
    /\ CallsFunction
    /\ ClassA(last[1].before) # 0
    /\ Within(last[1].before, last[1].table, ClassA(last[1].before))
    /\ HoldsName(last[1].before[ClassA(last[1].before)], UsedTerm[1].value)

\* C9: an access made inside the class that declares the member, such as
\* one method calling a private or secure method of its class, never
\* produces MODIFIER_EXCEPTION.
C9_OwnMemberNeverRejected ==
    (CallsOwnMethod \/ (AccessesMemberOfA /\ Within(last[1].before, last[1].table,
                                                    ClassA(last[1].before))))
        => ~Emitted("MODIFIER_EXCEPTION")

(***************************************************************************)
(* What the claim about break and continue speaks of: the kinds of the     *)
(* scopes around a statement, from the innermost outward, and the rule by  *)
(* which the specification accepts a break or continue.                    *)
(***************************************************************************)
LoopKinds == {"FOR", "WHILE", "DO", "IS"}

PassThroughKinds == {"IF", "ELSE_IF", "ELSE", "TRY", "CATCH"}

\* the kinds of the scopes on the parent chain of scope s
RECURSIVE ChainKinds(_, _)
ChainKinds(T, s) == IF s = 0 THEN <<>> ELSE <<T[s].type>> \o ChainKinds(T, T[s].parent)

\* a loop scope is met before any scope that is neither a loop nor passed
\* through
RECURSIVE AcceptedAsSpecified(_)
AcceptedAsSpecified(kinds) ==
    /\ kinds # <<>>
    /\ \/ kinds[1] \in LoopKinds
       \/ kinds[1] \in PassThroughKinds /\ AcceptedAsSpecified(Tail(kinds))

\* the kind of the scope a statement opens
ScopeKind(node) ==
    CASE node.type = "_FOR_STMT_NODE_" -> "FOR"
      [] node.type = "_WHILE_STMT_NODE_" -> "WHILE"
      [] node.type = "_DO_STMT_NODE_" -> "DO"
      [] node.type = "_IF_STMT_NODE_" -> "IF"
      [] node.type = "_ELSE_IF_STMT_NODE_" -> "ELSE_IF"
      [] node.type = "_ELSE_STMT_NODE_" -> "ELSE"
      [] node.type = "_CATCH_NODE_" -> "CATCH"
      [] node.type = "_FUNCTION_NODE_" -> "FUNCTION"
      [] node.type = "_CLASS_NODE_" -> "CLASS"
      [] node.type = "_CLASS_CONSTRUCTOR_NODE_" -> "CONSTRUCTOR"
      [] OTHER -> "NONE"

\* the statements of the body of a scope statement
BodyOf(node) ==
    LET runnable == IF node.type = "_FUNCTION_NODE_"
                    THEN node.details[Len(node.details)]
                    ELSE node.rightNode
    IN IF runnable = NULL THEN <<>> ELSE runnable[1].details

\* some break or continue among the statements, or in a body nested in
\* them, is one the specification rejects; kinds are the scopes around the
\* statements
RECURSIVE HoldsStray(_, _)
HoldsStray(statements, kinds) ==
    \E i \in 1..Len(statements) :
        LET node == statements[i][1]
        IN \/ /\ node.type \in {"_BREAK_STMT_NODE_", "_CONTINUE_STMT_NODE_"}
              /\ ~AcceptedAsSpecified(kinds)
           \/ /\ ScopeKind(node) # "NONE"
              /\ HoldsStray(BodyOf(node), <<ScopeKind(node)>> \o kinds)

\* C10, for the statements the walk handles: a break or continue is
\* reported with STATEMENT_MISPLACEMENT exactly when, going outward from
\* its scope through if, else-if, else, try, catch and loop scopes, no loop
\* scope is met before a scope of another kind.
C10_HandledBreakAcceptedIffLoopMetFirst ==
    Handled({"_BREAK_STMT_NODE_", "_CONTINUE_STMT_NODE_"})
        => (Emitted("STATEMENT_MISPLACEMENT_EXCEPTION")
                <=> ~AcceptedAsSpecified(ChainKinds(last[1].before, last[1].table)))

\* C10: a break or continue is accepted if and only if, going outward from
\* it through if, else-if, else, try, catch and loop scopes, a loop scope
\* (for, while, do, is) is met before a scope of another kind (function,
\* constructor, class, Main); in every other case STATEMENT_MISPLACEMENT is
\* emitted.  A break directly inside a for body is accepted, a break
\* directly inside a function body is rejected.
C10_BreakAcceptedIffLoopMetFirst ==
    /\ C10_HandledBreakAcceptedIffLoopMetFirst
    /\ (Handled({"_FOR_STMT_NODE_"})
            /\ HoldsStray(BodyOf(last[1].node),
                          <<"FOR">> \o ChainKinds(last[1].before, last[1].table)))
        => Emitted("STATEMENT_MISPLACEMENT_EXCEPTION")

(***************************************************************************)
(* What the claim about the place of declarations speaks of: the scopes    *)
(* in which the specification permits a declaration.                       *)
(***************************************************************************)
Declarations ==
    {"_CLASS_NODE_", "_ENUM_NODE_", "_INCLUDE_NODE_", "_FUNCTION_NODE_",
     "_CLASS_CONSTRUCTOR_NODE_"}

PermittedIn(nodeType, kind) ==
    CASE nodeType \in {"_CLASS_NODE_", "_ENUM_NODE_", "_INCLUDE_NODE_"} -> kind = "MAIN"
      [] nodeType = "_FUNCTION_NODE_" -> kind \in {"MAIN", "CLASS"}
      [] nodeType = "_CLASS_CONSTRUCTOR_NODE_" -> kind = "CLASS"
      [] OTHER -> TRUE

\* some declaration among the statements of a scope of the given kind, or
\* in a body nested in them, stands where the specification forbids it
RECURSIVE HoldsMisplaced(_, _)
HoldsMisplaced(statements, kind) ==
    \E i \in 1..Len(statements) :
        LET node == statements[i][1]
        IN \/ node.type \in Declarations /\ ~PermittedIn(node.type, kind)
           \/ ScopeKind(node) # "NONE" /\ HoldsMisplaced(BodyOf(node), ScopeKind(node))

\* C11, for the statements the walk handles: a declaration outside its
\* permitted scopes is reported with STATEMENT_MISPLACEMENT and leaves the
\* tables as they were; in a permitted scope it is not reported so.
C11_HandledDeclarationPlacedAsSpecified ==
    Handled(Declarations)
        => IF PermittedIn(last[1].node.type, last[1].before[last[1].table].type)
           THEN ~Emitted("STATEMENT_MISPLACEMENT_EXCEPTION")
           ELSE Emitted("STATEMENT_MISPLACEMENT_EXCEPTION") /\ tables = last[1].before

\* C11: a class, enum or include in a scope other than Main, a function in
\* a scope other than Main or a class, and a constructor in a scope other
\* than a class each emit STATEMENT_MISPLACEMENT and create neither an
\* entry nor a scope; in their permitted scopes they emit no
\* STATEMENT_MISPLACEMENT.
C11_DeclarationPlacedAsSpecified ==
    /\ C11_HandledDeclarationPlacedAsSpecified
    /\ (Handled({"_FOR_STMT_NODE_"}) /\ HoldsMisplaced(BodyOf(last[1].node), "FOR"))
        => Emitted("STATEMENT_MISPLACEMENT_EXCEPTION")

(***************************************************************************)
(* What the claim about neighbouring statements speaks of: a round of the  *)
(* loop of SA_manage_runnable, the statement before the one it handles     *)
(* ("NONE" for the first of a block) and the statement after it ("END"     *)
(* for the last).                                                          *)
(***************************************************************************)
HandlesStatement(types) == nstmt' = nstmt + 1 /\ last'[1].node.type \in types

Precedes == sib[cur].prev

Follows == sib'[cur].next

\* the statement was reported as misplaced and the walk goes on
ReportedMisplaced ==
    /\ status' = "run"
    /\ \E i \in 1..Len(diags') : diags'[i].errorType = "STATEMENT_MISPLACEMENT_EXCEPTION"

\* C12: a try that is not followed by a catch in its block, a catch that
\* is not preceded by a try, and an else-if or else that is not preceded
\* by an if or else-if, the first and the last statement of a block
\* included, are reported with STATEMENT_MISPLACEMENT, and nothing outside
\* the statements of the block is consulted.
C12_NeighboursCheckedInsideBlock ==
    [][/\ (HandlesStatement({"_TRY_NODE_"}) /\ Follows # "_CATCH_NODE_")
            => ReportedMisplaced
       /\ (HandlesStatement({"_CATCH_NODE_"}) /\ Precedes # "_TRY_NODE_")
            => ReportedMisplaced
       /\ (HandlesStatement({"_ELSE_IF_STMT_NODE_", "_ELSE_STMT_NODE_"})
                /\ Precedes \notin {"_IF_STMT_NODE_", "_ELSE_IF_STMT_NODE_"})
            => ReportedMisplaced]_vars

\* C12, for the statements that have the neighbour they look at: the same
\* with the first statement of a block left out for catch, else-if and
\* else, and the last left out for try.
C12_InnerNeighboursChecked ==
    [][/\ (HandlesStatement({"_TRY_NODE_"}) /\ Follows \notin {"_CATCH_NODE_", "END"})
            => ReportedMisplaced
       /\ (HandlesStatement({"_CATCH_NODE_"}) /\ Precedes \notin {"_TRY_NODE_", "NONE"})
            => ReportedMisplaced
       /\ (HandlesStatement({"_ELSE_IF_STMT_NODE_", "_ELSE_STMT_NODE_"})
                /\ Precedes \notin {"_IF_STMT_NODE_", "_ELSE_IF_STMT_NODE_", "NONE"})
            => ReportedMisplaced]_vars

(***************************************************************************)
(* What the claim about array accesses speaks of: the declaration of b     *)
(* from a[0]...[0] where a is declared and b is not (a redeclaration is    *)
(* reported as such and its initializer is not looked at), the dimension a *)
(* is declared with, the number of accesses, and the type the access       *)
(* yields.                                                                 *)
(***************************************************************************)
RECURSIVE CountAccesses(_)
CountAccesses(cache) == IF cache = NULL THEN 0 ELSE 1 + CountAccesses(cache[1].rightNode)

AccessesArray ==
    /\ Handled({"_VAR_NODE_"})
    /\ last[1].node.rightNode # NULL
    /\ last[1].node.rightNode[1].type = "_IDEN_NODE_"
    /\ OnChain(last[1].before, last[1].table, last[1].node.rightNode[1].value)
    /\ ~OnChain(last[1].before, last[1].table, last[1].node.value)

AccessedEntry(T) == NearestEntry(T, last[1].table, last[1].node.rightNode[1].value)

DeclaredDimension == AccessedEntry(last[1].before).dec.dimension

AccessLayers == CountAccesses(last[1].node.rightNode[1].leftNode)

YieldedType ==
    Invoke("SA_check_restricted_member_access",
           <<last[1].node.rightNode, last[1].table,
             SA_get_next_table_with_declaration(last[1].node.rightNode, last[1].before,
                                                last[1].table),
             last[1].before, "zero">>)

WalkedScopeStatements ==
    {"_CLASS_NODE_", "_FUNCTION_NODE_", "_CLASS_CONSTRUCTOR_NODE_", "_ENUM_NODE_",
     "_IF_STMT_NODE_", "_ELSE_IF_STMT_NODE_", "_ELSE_STMT_NODE_", "_WHILE_STMT_NODE_",
     "_DO_STMT_NODE_", "_TRY_NODE_", "_CATCH_NODE_"}

TableKind(node) ==
    CASE node.type = "_TRY_NODE_" -> "TRY"
      [] node.type = "_ENUM_NODE_" -> "ENUM"
      [] OTHER -> ScopeKind(node)

\* the statement handled last was accepted and the newest table is its
\* own: of its kind, child of the table of the enclosing construct, and
\* (but for an enum, which has enumerators and no statements) the table in
\* which the walk goes on
OwnTableMade ==
    /\ Len(tables) = Len(last[1].before) + 1
    /\ tables[Len(tables)].type = TableKind(last[1].node)
    /\ tables[Len(tables)].parent = last[1].table
    /\ last[1].node.type # "_ENUM_NODE_" => cur = Len(tables)

\* the parent chain of every table is finite and ends at Main
RECURSIVE EndsAtMain(_, _, _)
EndsAtMain(T, s, fuel) ==
    /\ fuel > 0
    /\ IF T[s].parent = 0 THEN T[s].type = "MAIN" ELSE EndsAtMain(T, T[s].parent, fuel - 1)

\* C14, for the scope statements SA_manage_runnable has a case for
C14_WalkedScopeGetsOwnTable ==
    /\ (Handled(WalkedScopeStatements) /\ diags = <<>>) => OwnTableMade
    /\ \A s \in 1..Len(tables) : EndsAtMain(tables, s, Len(tables))

\* C14: every class, function, constructor, enum, if, else-if, else,
\* while, do, for, try and catch statement that the analyzer accepts gets
\* its own table whose parent is the table of the enclosing construct, and
\* its body is analyzed in that table; the parent chain of every table is
\* finite and ends at Main.
C14_AcceptedScopeGetsOwnTable ==
    /\ (Handled(WalkedScopeStatements \cup {"_FOR_STMT_NODE_"}) /\ diags = <<>>)
            => OwnTableMade
    /\ \A s \in 1..Len(tables) : EndsAtMain(tables, s, Len(tables))

(***************************************************************************)
(* What the claim about recoverable diagnostics speaks of: the kinds of    *)
(* diagnostics, and the walk being, after a statement that was reported,   *)
(* at the place from which the statements after it are handled.            *)
(***************************************************************************)
Recoverable ==
    {"ALREADY_DEFINED_EXCEPTION", "NOT_DEFINED_EXCEPTION", "TYPE_MISMATCH_EXCEPTION",
     "STATEMENT_MISPLACEMENT_EXCEPTION", "WRONG_ACCESSOR_EXCEPTION",
     "WRONG_ARGUMENT_EXCPEPTION", "MODIFIER_EXCEPTION",
     "NO_SUCH_ARRAY_DIMENSION_EXCEPTION"}

ReportedRecoverable ==
    /\ last # NULL
    /\ \E i \in 1..Len(diags) : diags[i].errorType \in Recoverable

\* the loop is still running in the block of the reported statement, or in
\* the body of that statement
WalkGoesOn ==
    /\ status = "run"
    /\ \/ cur = last[1].table
       \/ cur = Len(tables) /\ tables[cur].parent = last[1].table

\* the process died in a statement that reported nothing: undefined
\* behaviour in a statement after the reported one (a call of a private
\* function of the outermost scope from a function body reads the name of
\* a class table that does not exist)
DiedUnreported == status = "crash" /\ diags = <<>>

ParameterNames(node) ==
    {node.details[i][1].value : i \in {j \in 1..Len(node.details) :
        /\ node.details[j] # NULL
        /\ node.details[j][1].type \in {"_IDEN_NODE_", "_PARAM_NODE_"}}}

DeclaredNames ==
    IF Handled({"_FUNCTION_NODE_"})
    THEN {last[1].node.value} \cup ParameterNames(last[1].node)
    ELSE IF Handled({"_CLASS_CONSTRUCTOR_NODE_"})
    THEN ParameterNames(last[1].node)
    ELSE IF Handled({"_CATCH_NODE_"})
    THEN {last[1].node.leftNode[1].value}
    ELSE {}

\* C16: declaring a function, a function or constructor parameter, or a
\* catch parameter under a name that a table on the parent chain of the
\* current scope holds emits ALREADY_DEFINED.
C16_DuplicateFunctionOrParameterRejected ==
    (/\ ~Emitted("STATEMENT_MISPLACEMENT_EXCEPTION")
     /\ \E name \in DeclaredNames : OnChain(last[1].before, last[1].table, name))
        => Emitted("ALREADY_DEFINED_EXCEPTION")

\* What the code does instead: a function, and a catch after its try, is
\* entered under any name and with any parameter names, without a report.
C16_FunctionAndCatchEnteredUnchecked ==
    (/\ Handled({"_FUNCTION_NODE_", "_CATCH_NODE_"})
     /\ ~Emitted("STATEMENT_MISPLACEMENT_EXCEPTION"))
        => /\ diags = <<>>
           /\ cur = Len(tables)
           /\ tables[cur].parent = last[1].table

(***************************************************************************)
(* The parse-tree builder (src/src/parsetreeGenerator.c) on token arrays.  *)
(* A token array is a sequence of tokens that ends with __EOF__; the       *)
(* builder's positions count from 0, TOKEN_LENGTH is the length of the     *)
(* array.  A NodeReport is [node, tokensToSkip]; a builder whose recursion *)
(* does not come to an end leaves no report (StackOverflow).               *)
(***************************************************************************)
MaxStack == 12

Digits == {"0", "1", "2", "3", "4", "5", "6", "7", "8", "9"}

\* the type the lexer gives to a token of this text
TokenType(value) ==
    CASE value = "(" -> "_OP_RIGHT_BRACKET_"
      [] value = ")" -> "_OP_LEFT_BRACKET_"
      [] value = "+" -> "_OP_PLUS_"
      [] value = "-" -> "_OP_MINUS_"
      [] value = "*" -> "_OP_MULTIPLY_"
      [] value = "/" -> "_OP_DIVIDE_"
      [] value = "%" -> "_OP_MODULU_"
      [] value = ";" -> "_OP_SEMICOLON_"
      [] value = "=" -> "_OP_EQUALS_"
      [] value = "var" -> "_KW_VAR_"
      [] value = "while" -> "_KW_WHILE_"
      [] value = "enum" -> "_KW_ENUM_"
      [] value = "and" -> "_KW_AND_"
      [] value = "or" -> "_KW_OR_"
      [] value = "==" -> "_OP_EQUALS_CONDITION_"
      [] value = "{" -> "_OP_RIGHT_BRACE_"
      [] value = "}" -> "_OP_LEFT_BRACE_"
      [] value = ":" -> "_OP_COLON_"
      [] value = "," -> "_OP_COMMA_"
      [] value = "EOF" -> "__EOF__"
      [] SubSeq(value, 1, 1) \in Digits -> "_NUMBER_"
      [] OTHER -> "_IDENTIFIER_"

Token(value) == [type |-> TokenType(value), value |-> value]

Lex(words) == [i \in 1..Len(words) |-> Token(words[i])]

TokenAt(tokens, i) == tokens[i + 1]

TOKEN_LENGTH(tokens) == Len(tokens)

UNINITIALZED == -1

StackOverflow == [node |-> NULL, tokensToSkip |-> -2]

PG_create_node_report(topNode, tokensToSkip) ==
    [node |-> topNode, tokensToSkip |-> tokensToSkip]

PG_get_node_type_by_value(value) ==
    CASE SubSeq(value, 1, 1) \in Digits -> "_NUMBER_NODE_"
      [] value = "*" -> "_MULTIPLY_NODE_"
      [] value = "+" -> "_PLUS_NODE_"
      [] value = "-" -> "_MINUS_NODE_"
      [] value = "/" -> "_DIVIDE_NODE_"
      [] value = "%" -> "_MODULO_NODE_"
      [] value = "==" -> "_EQUALS_CONDITION_NODE_"
      [] OTHER -> "_IDEN_NODE_"

PG_is_calculation_operator(token) ==
    token.type \in {"_OP_PLUS_", "_OP_MINUS_", "_OP_MULTIPLY_", "_OP_DIVIDE_", "_OP_MODULU_"}

PG_is_condition_operator(type) ==
    type \in {"_OP_EQUALS_CONDITION_", "_OP_GREATER_CONDITION_", "_OP_SMALLER_CONDITION_",
              "_OP_GREATER_OR_EQUAL_CONDITION_", "_OP_SMALLER_OR_EQUAL_CONDITION_",
              "_OP_NOT_EQUALS_CONDITION_", "_KW_AND_", "_KW_OR_", "_OP_QUESTION_MARK_"}

\* the lexer's test for the keywords of the primitive types
is_primitive(type) == type \in {"_KW_INT_", "_KW_DOUBLE_", "_KW_CHAR_", "_KW_BOOLEAN_"}

\* PG_get_term_bounds: the number of tokens of the term that starts at startPos
PG_get_term_bounds(tokens, startPos) ==
    LET RECURSIVE Scan(_, _)
        Scan(i, openBrackets) ==
            IF i >= TOKEN_LENGTH(tokens) THEN -1
            ELSE LET type == TokenAt(tokens, i).type
                 IN CASE type = "_OP_LEFT_BRACKET_" ->
                            IF openBrackets - 1 < 0
                               /\ ~PG_is_calculation_operator(TokenAt(tokens, i + 1))
                            THEN i - startPos
                            ELSE Scan(i + 1, openBrackets - 1)
                      [] type = "_OP_RIGHT_BRACKET_" -> Scan(i + 1, openBrackets + 1)
                      [] type \in {"_OP_SEMICOLON_", "_OP_EQUALS_", "_OP_LEFT_BRACE_"} ->
                            i - startPos
                      [] OTHER -> Scan(i + 1, openBrackets)
    IN Scan(startPos, 0)

\* PG_predict_member_access(tokens, startPos, NONE)
PG_predict_member_access(tokens, startPos) ==
    LET RECURSIVE Scan(_)
        Scan(i) ==
            IF i >= TOKEN_LENGTH(tokens) THEN FALSE
            ELSE LET tok == TokenAt(tokens, i)
                 IN IF PG_is_calculation_operator(tok) THEN FALSE
                    ELSE IF tok.type = "_OP_SEMICOLON_" THEN TRUE
                    ELSE IF PG_is_condition_operator(tok.type) THEN TRUE
                    ELSE IF tok.type = "_OP_COMMA_" THEN FALSE
                    ELSE IF is_primitive(tok.type) THEN FALSE
                    ELSE Scan(i + 1)
    IN Scan(startPos)

PG_determine_bounds_for_capsulated_term(tokens, startPos) ==
    LET RECURSIVE Scan(_, _)
        Scan(bounds, openBrackets) ==
            IF TokenAt(tokens, startPos + bounds).type = "__EOF__" THEN bounds
            ELSE LET type == TokenAt(tokens, startPos + bounds).type
                     open == IF type = "_OP_LEFT_BRACKET_" THEN openBrackets - 1
                             ELSE IF type = "_OP_RIGHT_BRACKET_" THEN openBrackets + 1
                             ELSE openBrackets
                 IN IF open = 0 THEN bounds ELSE Scan(bounds + 1, open)
    IN Scan(0, 0)

PG_is_next_operator_multiply_divide_or_modulo(tokens, startPos) ==
    LET RECURSIVE Scan(_, _)
        Scan(jumper, openBrackets) ==
            IF startPos + jumper >= TOKEN_LENGTH(tokens) THEN FALSE
            ELSE LET type == TokenAt(tokens, startPos + jumper).type
                 IN CASE type \in {"_OP_PLUS_", "_OP_MINUS_", "_OP_COMMA_"} ->
                            IF openBrackets # 0 THEN Scan(jumper + 1, openBrackets) ELSE FALSE
                      [] type \in {"_OP_MULTIPLY_", "_OP_DIVIDE_", "_OP_MODULU_"} ->
                            IF openBrackets # 0 THEN Scan(jumper + 1, openBrackets) ELSE TRUE
                      [] type = "_OP_LEFT_BRACKET_" -> Scan(jumper + 1, openBrackets - 1)
                      [] type = "_OP_RIGHT_BRACKET_" -> Scan(jumper + 1, openBrackets + 1)
                      [] OTHER -> Scan(jumper + 1, openBrackets)
    IN Scan(0, 0)

PG_forward_till_plus_or_minus(tokens, startPos) ==
    LET RECURSIVE Scan(_, _)
        Scan(skip, openBrackets) ==
            IF startPos + skip >= TOKEN_LENGTH(tokens) THEN skip
            ELSE LET type == TokenAt(tokens, startPos + skip).type
                 IN CASE type \in {"_OP_PLUS_", "_OP_MINUS_"} ->
                            IF openBrackets # 0 THEN Scan(skip + 1, openBrackets) ELSE skip
                      [] type = "_OP_RIGHT_BRACKET_" -> Scan(skip + 1, openBrackets + 1)
                      [] type = "_OP_LEFT_BRACKET_" -> Scan(skip + 1, openBrackets - 1)
                      [] type \in {"_OP_SEMICOLON_", "_OP_RIGHT_BRACE_"} -> skip
                      [] OTHER -> Scan(skip + 1, openBrackets)
    IN Scan(0, 0)

\* PG_create_member_access_tree for an operand without '.' and '->' (for
\* which PG_is_member_access is false): the node that
\* PG_get_member_access_side_node_tree(tokens, startPos, STAY, ...) makes of
\* the token at startPos, one token long; PG_create_post_member_access_side_
\* node_tree finds neither '[' nor ':' after it and sets leftNode to NULL.
PG_create_member_access_tree(tokens, startPos) ==
    LET value == TokenAt(tokens, startPos).value
    IN PG_create_node_report(Ptr(Leaf(PG_get_node_type_by_value(value), value)), 1)

\* The builders call each other as in the source; the calls are made
\* through Build, which hands the arguments to the builder named.
RECURSIVE Build(_, _)

\* depth counts the calls of the two builders that are open
PG_assign_processed_node_to_node(tokens, startPos, depth) ==
    IF TokenAt(tokens, startPos).type = "_OP_RIGHT_BRACKET_"
    THEN LET bounds == PG_determine_bounds_for_capsulated_term(tokens, startPos)
         IN Build("PG_create_simple_term_node", <<tokens, startPos, bounds + 1, depth + 1>>)
    ELSE PG_create_member_access_tree(tokens, startPos)

PG_create_simple_term_node(tokens, startPos, boundaries, depth) ==
    IF depth > MaxStack THEN StackOverflow
    ELSE
    LET length == startPos + boundaries
        isCalc == ~(PG_predict_member_access(tokens, startPos) \/ boundaries = 1)
        \* the for loop: what it leaves in cache, or the report of a call
        \* that did not come to an end
        RECURSIVE Loop(_, _, _)
        Loop(i, cache, lastIdenPos) ==
            IF ~(i < length /\ isCalc) \/ TokenAt(tokens, i).type = "__EOF__"
            THEN PG_create_node_report(cache, boundaries)
            ELSE
            LET currentToken == TokenAt(tokens, i)
                node == Node(PG_get_node_type_by_value(currentToken.value),
                             currentToken.value, NULL, NULL, <<>>)
                first == PG_create_member_access_tree(tokens, lastIdenPos)
            IN CASE currentToken.type = "_OP_RIGHT_BRACKET_" ->
                    LET bounds == PG_determine_bounds_for_capsulated_term(tokens, i)
                        rep == Build("PG_create_simple_term_node",
                                     <<tokens, i + 1, bounds, depth + 1>>)
                    IN IF rep = StackOverflow THEN StackOverflow
                       ELSE Loop(i + rep.tokensToSkip + 1,
                                 IF cache = NULL THEN rep.node
                                 ELSE Ptr([cache[1] EXCEPT !.rightNode = rep.node]),
                                 lastIdenPos)
                 [] currentToken.type \in {"_OP_PLUS_", "_OP_MINUS_"} ->
                    LET rRep == IF ~PG_is_next_operator_multiply_divide_or_modulo(tokens, i + 1)
                                THEN Build("PG_assign_processed_node_to_node",
                                           <<tokens, i + 1, depth>>)
                                ELSE Build("PG_create_simple_term_node", <<tokens, i + 1,
                                        PG_forward_till_plus_or_minus(tokens, i + 1), depth + 1>>)
                    IN IF rRep = StackOverflow THEN StackOverflow
                       ELSE Loop(i + rRep.tokensToSkip + 1,
                                 Ptr([node EXCEPT !.leftNode = IF cache = NULL THEN first.node
                                                                ELSE cache,
                                                  !.rightNode = rRep.node]),
                                 UNINITIALZED)
                 [] currentToken.type \in {"_OP_DIVIDE_", "_OP_MULTIPLY_", "_OP_MODULU_"} ->
                    LET lRep == Build("PG_assign_processed_node_to_node",
                                      <<tokens, lastIdenPos, depth>>)
                        rRep == Build("PG_assign_processed_node_to_node",
                                      <<tokens, i + 1, depth>>)
                    IN IF rRep = StackOverflow THEN StackOverflow
                       ELSE Loop(i + rRep.tokensToSkip + 1,
                                 Ptr([node EXCEPT !.leftNode = IF cache = NULL THEN lRep.node
                                                                ELSE cache,
                                                  !.rightNode = rRep.node]),
                                 UNINITIALZED)
                 [] OTHER ->
                    Loop(i + 1, cache, IF lastIdenPos = UNINITIALZED THEN i ELSE lastIdenPos)
        looped == Loop(startPos, NULL, UNINITIALZED)
    IN IF looped = StackOverflow THEN StackOverflow
       ELSE IF looped.node = NULL
       THEN LET assignRep == Build("PG_assign_processed_node_to_node",
                                   <<tokens, startPos, depth>>)
            IN IF assignRep = StackOverflow THEN StackOverflow
               ELSE PG_create_node_report(assignRep.node, boundaries)
       ELSE looped

(***************************************************************************)
(* The term builder on  var x = <term> ;  for every term of at most        *)
(* MaxTermTokens tokens over the operands a and 2, the five operators and  *)
(* brackets, and for some longer terms.  The tokens of these terms take    *)
(* none of the string, boolean, increment, call, array and member access   *)
(* branches of the builder.                                                *)
(***************************************************************************)
MaxTermTokens == 7

TermOperands == {"a", "2"}

Strokes == {"+", "-"}

Dots == {"*", "/", "%"}

TermsOfLength[n \in 1..MaxTermTokens] ==
    IF n = 1 THEN {<<o>> : o \in TermOperands}
    ELSE IF n = 2 THEN {}
    ELSE UNION {{l \o <<op>> \o r : l \in TermsOfLength[k], r \in TermsOfLength[n - 1 - k],
                                    op \in Strokes \cup Dots} : k \in 1..(n - 2)}
         \cup {<<"(">> \o t \o <<")">> : t \in TermsOfLength[n - 2]}

\* the words before the term, and where the term starts
Declaration == <<"var", "x", "=">>

TermStart == Len(Declaration)

\* some longer terms with a bracketed group at the start, in the middle and
\* at the end
LongTerms ==
    {<<"(", "a", "+", "2", "*", "a", ")", "+", "2">>,
     <<"(", "a", "*", "2", "+", "a", ")", "*", "2">>,
     <<"a", "*", "(", "2", "+", "a", ")", "*", "2">>,
     <<"a", "-", "(", "2", "-", "a", ")", "-", "2">>,
     <<"a", "+", "2", "*", "(", "a", "-", "2", ")">>,
     <<"(", "a", "+", "2", ")", "*", "(", "a", "-", "2", ")">>}

TermInputs ==
    {Lex(Declaration \o t \o <<";", "EOF">>) :
        t \in LongTerms \cup UNION {TermsOfLength[n] : n \in 1..MaxTermTokens}}

InitTerm ==
    /\ tokenArray \in TermInputs
    /\ stage = "input"
    /\ built = <<>>
    /\ IdleWalk
    /\ IdleTypes
    /\ IdleSizing

\* PG_create_variable_tree, the value of the variable: the term after '='
CreateVariableTerm ==
    /\ stage = "input"
    /\ built' = PG_create_simple_term_node(tokenArray, TermStart,
                                           PG_get_term_bounds(tokenArray, TermStart), 0)
    /\ stage' = "built"
    /\ UNCHANGED tokenArray
    /\ UNCHANGED walkVars
    /\ UNCHANGED typeVars
    /\ UNCHANGED sizeVars

NextTerm == CreateVariableTerm

SpecTerm == InitTerm /\ [][NextTerm]_vars

(***************************************************************************)
(* What the claim about terms speaks of: the tree of the standard grammar  *)
(*   term := product { stroke product },  product := unit { dot unit },    *)
(*   unit := operand | ( term ),  stroke one of + -,  dot one of * / %     *)
(* of a sequence of words, and the operator nodes of a tree.               *)
(***************************************************************************)
SourceTerm ==
    [i \in 1..(PG_get_term_bounds(tokenArray, TermStart)) |->
        TokenAt(tokenArray, TermStart + i - 1).value]

\* the positions of the words of `among` that stand outside all brackets
Outermost(words, among) ==
    {i \in 1..Len(words) :
        /\ words[i] \in among
        /\ Cardinality({j \in 1..i : words[j] = "("})
              = Cardinality({j \in 1..i : words[j] = ")"})}

Greatest(S) == CHOOSE i \in S : \A j \in S : j <= i

RECURSIVE Standard(_)
Standard(words) ==
    LET strokes == Outermost(words, Strokes)
        dots == Outermost(words, Dots)
        Split(at) == Node(PG_get_node_type_by_value(words[at]), words[at],
                          Ptr(Standard(SubSeq(words, 1, at - 1))),
                          Ptr(Standard(SubSeq(words, at + 1, Len(words)))), <<>>)
    IN IF strokes # {} THEN Split(Greatest(strokes))
       ELSE IF dots # {} THEN Split(Greatest(dots))
       ELSE IF Len(words) = 1 THEN Leaf(PG_get_node_type_by_value(words[1]), words[1])
       ELSE Standard(SubSeq(words, 2, Len(words) - 1))

OperatorTypes ==
    {"_PLUS_NODE_", "_MINUS_NODE_", "_MULTIPLY_NODE_", "_DIVIDE_NODE_", "_MODULO_NODE_"}

RECURSIVE BothSides(_)
BothSides(node) ==
    /\ node.type \in OperatorTypes => node.leftNode # NULL /\ node.rightNode # NULL
    /\ node.leftNode # NULL => BothSides(node.leftNode[1])
    /\ node.rightNode # NULL => BothSides(node.rightNode[1])

\* C17: for every arithmetic term over identifier and number operands, the
\* five operators and brackets, the tree of the term builder is the tree of
\* the standard grammar, and every operator node in it has a left and a
\* right child.
C17_TermTreeIsStandard ==
    stage = "built" /\ tokenArray \in TermInputs =>
        /\ built.node = Ptr(Standard(SourceTerm))
        /\ BothSides(built.node[1])

\* What holds: the tree of a term without brackets is the standard one.
C17_BracketFreeTermTreeIsStandard ==
    (/\ stage = "built" /\ tokenArray \in TermInputs
     /\ \A i \in 1..Len(SourceTerm) : SourceTerm[i] # "(")
        => /\ built.node = Ptr(Standard(SourceTerm))
           /\ BothSides(built.node[1])

\* Two terms the builder fails on:  ( a + 2 * a ) + 2  comes back with
\* the last operand twice, ( a ) does not come back.
C17_OperandTwice ==
    /\ stage = "built"
    /\ SourceTerm = <<"(", "a", "+", "2", "*", "a", ")", "+", "2">>
    /\ built.node # Ptr(Standard(SourceTerm))

C17_NeverBuilt ==
    /\ stage = "built"
    /\ SourceTerm = <<"(", "a", ")">>
    /\ built = StackOverflow

(***************************************************************************)
(* The builder of chained conditions.                                      *)
(***************************************************************************)
\* A scan that finds no connective
NoLogicalOperator(tokens, startPos) == FALSE

PG_contains_logical_operator(tokens, startPos) ==
    LET RECURSIVE Scan(_)
        Scan(i) ==
            IF i >= TOKEN_LENGTH(tokens) THEN FALSE
            ELSE LET type == TokenAt(tokens, i).type
                 IN IF type \in {"_KW_AND_", "_KW_OR_"} THEN TRUE
                    ELSE IF type \in {"_OP_RIGHT_BRACE_", "_OP_SEMICOLON_", "_OP_QUESTION_MARK_"}
                    THEN FALSE
                    ELSE Scan(i + 1)
    IN Scan(startPos)

PG_get_condition_iden_length(tokens, startPos) ==
    LET RECURSIVE Scan(_, _)
        Scan(counter, openBrackets) ==
            IF startPos + counter >= TOKEN_LENGTH(tokens) THEN counter
            ELSE LET type == TokenAt(tokens, startPos + counter).type
                 IN IF PG_is_condition_operator(type) THEN counter
                    ELSE IF type = "_OP_SEMICOLON_" THEN counter
                    ELSE IF type = "_OP_LEFT_BRACKET_"
                    THEN IF openBrackets - 1 < 0 THEN counter
                         ELSE Scan(counter + 1, openBrackets - 1)
                    ELSE IF type = "_OP_RIGHT_BRACKET_" THEN Scan(counter + 1, openBrackets + 1)
                    ELSE Scan(counter + 1, openBrackets)
    IN Scan(0, 0)

\* PG_create_condition_tree on tokens without true and false
PG_create_condition_tree(tokens, startPos) ==
    LET RECURSIVE Scan(_)
        Scan(skip) ==
            IF startPos + skip >= TOKEN_LENGTH(tokens) THEN PG_create_node_report(NULL, 0)
            ELSE LET currentToken == TokenAt(tokens, startPos + skip)
                 IN IF PG_is_condition_operator(currentToken.type)
                    THEN LET leftBounds == PG_get_condition_iden_length(tokens, startPos)
                             rightBounds ==
                                 PG_get_condition_iden_length(tokens, startPos + skip + 1)
                             rightTermReport ==
                                 Build("PG_create_simple_term_node", <<tokens, startPos + skip + 1,
                                                            rightBounds, 0>>)
                             leftTermReport ==
                                 Build("PG_create_simple_term_node", <<tokens, startPos, leftBounds, 0>>)
                         IN PG_create_node_report(
                                Ptr(Node(PG_get_node_type_by_value(currentToken.value),
                                         currentToken.value, leftTermReport.node,
                                         rightTermReport.node, <<>>)),
                                skip + rightBounds + 1)
                    ELSE Scan(skip + 1)
    IN Scan(0)

PG_create_chained_condition_tree(tokens, startPos) ==
    LET \* the while loop: what it leaves in cache and skip
        RECURSIVE Loop(_, _, _)
        Loop(skip, cache, lastCondStart) ==
            IF ~(skip < TOKEN_LENGTH(tokens)) THEN [cache |-> cache, skip |-> skip]
            ELSE
            LET currentToken == TokenAt(tokens, startPos + skip)
            IN CASE currentToken.type = "_OP_RIGHT_BRACKET_" ->
                    LET rep == Build("PG_create_chained_condition_tree",
                                     <<tokens, startPos + skip + 1>>)
                    IN Loop(skip + rep.tokensToSkip,
                            IF cache = NULL THEN rep.node
                            ELSE IF cache[1].leftNode = NULL
                            THEN Ptr([cache[1] EXCEPT !.leftNode = rep.node])
                            ELSE Ptr([cache[1] EXCEPT !.rightNode = rep.node]),
                            lastCondStart)
                 [] currentToken.type \in {"_OP_LEFT_BRACKET_", "_OP_SEMICOLON_",
                                           "_OP_QUESTION_MARK_"} ->
                    [cache |-> cache, skip |-> skip]
                 [] currentToken.type \in {"_KW_OR_", "_KW_AND_"} ->
                    LET type == IF currentToken.type = "_KW_AND_" THEN "_AND_NODE_"
                                ELSE "_OR_NODE_"
                        leftNode == IF cache = NULL
                                    THEN Build("PG_create_condition_tree",
                                               <<tokens, lastCondStart>>).node
                                    ELSE cache
                        rightReport ==
                            IF TokenAt(tokens, startPos + skip + 1).type = "_OP_RIGHT_BRACKET_"
                            THEN Build("PG_create_chained_condition_tree",
                                       <<tokens, startPos + skip + 2>>)
                            ELSE Build("PG_create_condition_tree",
                                       <<tokens, startPos + skip + 1>>)
                    IN Loop(skip + rightReport.tokensToSkip + 1,
                            Ptr(Node(type, currentToken.value, leftNode,
                                     rightReport.node, <<>>)),
                            skip + rightReport.tokensToSkip + 1)
                 [] OTHER -> Loop(skip + 1, cache, lastCondStart)
        looped == IF PG_contains_logical_operator(tokens, startPos)
                  THEN Loop(0, NULL, startPos)
                  ELSE [cache |-> NULL, skip |-> 0]
    IN IF looped.cache = NULL
       THEN IF TokenAt(tokens, startPos).type = "_OP_RIGHT_BRACKET_"
            THEN Build("PG_create_chained_condition_tree", <<tokens, startPos + 1>>)
            ELSE Build("PG_create_condition_tree", <<tokens, startPos>>)
       ELSE PG_create_node_report(looped.cache, looped.skip)

\* What the implementation may do where the source leaves it open: calloc
\* of zero bytes may return NULL (PG_allocate_node_details then exits), a
\* read behind the token array may fault ("die"), or both go on ("go").
CallOutcomes == {"die", "go"}

Died == [node |-> NULL, tokensToSkip |-> -3]

PG_predict_primitive_param_count(tokens, startPos) ==
    IF /\ TokenAt(tokens, startPos).type = "_OP_RIGHT_BRACKET_"
       /\ TokenAt(tokens, startPos + 1).type = "_OP_LEFT_BRACKET_"
    THEN 0
    ELSE IF /\ TokenAt(tokens, startPos).type = "_OP_RIGHT_BRACKET_"
            /\ TokenAt(tokens, startPos + 1).type \in {"_IDENTIFIER_", "_NUMBER_"}
            /\ TokenAt(tokens, startPos + 2).type = "_OP_LEFT_BRACKET_"
    THEN 1
    ELSE -1

PG_predict_argument_count(tokens, startPos, withPredefinedBrackets) ==
    LET primitiveCheck == PG_predict_primitive_param_count(tokens, startPos)
        RECURSIVE Scan(_, _, _)
        Scan(i, count, openBrackets) ==
            IF i >= TOKEN_LENGTH(tokens) THEN count
            ELSE LET type == TokenAt(tokens, i).type
                 IN CASE type = "_OP_COMMA_" ->
                            Scan(i + 1, count + (IF count = 0 THEN 2 ELSE 1), openBrackets)
                      [] type = "_OP_RIGHT_BRACKET_" -> Scan(i + 1, count, openBrackets + 1)
                      [] type = "_OP_LEFT_BRACKET_" ->
                            LET counted == IF /\ TokenAt(tokens, i - 1).type
                                                    # "_OP_RIGHT_BRACKET_"
                                              /\ count = 0
                                           THEN count + 1 ELSE count
                            IN IF openBrackets - 1 <= 0 THEN counted
                               ELSE Scan(i + 1, counted, openBrackets - 1)
                      [] type \in {"_OP_RIGHT_BRACE_", "_OP_CLASS_CREATOR_"} -> count
                      [] OTHER -> Scan(i + 1, count, openBrackets)
    IN IF primitiveCheck # -1 THEN primitiveCheck
       ELSE Scan(startPos, 0, withPredefinedBrackets)

PG_get_bound_of_single_param(tokens, startPos) ==
    LET RECURSIVE Scan(_, _, _)
        Scan(i, bound, openBrackets) ==
            IF i >= TOKEN_LENGTH(tokens) THEN bound
            ELSE LET type == TokenAt(tokens, i).type
                 IN IF /\ type \in {"_OP_COMMA_", "_OP_CLASS_CREATOR_", "_OP_COLON_"}
                       /\ openBrackets <= 0
                    THEN bound
                    ELSE IF type = "_OP_RIGHT_BRACKET_"
                    THEN Scan(i + 1, bound + 1, openBrackets + 1)
                    ELSE IF type = "_OP_LEFT_BRACKET_"
                    THEN IF openBrackets - 1 < 0 THEN bound
                         ELSE Scan(i + 1, bound + 1, openBrackets - 1)
                    ELSE Scan(i + 1, bound + 1, openBrackets)
    IN Scan(startPos, 0, 0)

\* calloc(size, sizeof(Node*)): size slots, all NULL; a node that has
\* details already is not part of the model (the call node is new)
PG_allocate_node_details(node, size) ==
    [node EXCEPT !.details = [k \in 1..size |-> NULL]]

\* The node with its details filled and the number of tokens to skip, or
\* Died.  The token arrays of the model hold no '?' and no ':', so that
\* no parameter is a conditional assignment or has a type behind it
\* (PG_create_condition_assignment_tree, PG_add_varType_definition).
PG_add_params_to_node(node, tokens, startPos, addStart, stdType, outcome) ==
    LET detailsCount == Len(node.details)
        RECURSIVE Loop(_, _, _, _)
        \* the end of a round: the node of the report is stored, given the
        \* standard type if there is one, and the loop goes on behind the
        \* parameter; `behind` says that the token read behind it lies
        \* behind the end of the array
        Store(i, detailsPointer, details, report, behind) ==
            IF report.node = NULL \/ (behind /\ outcome = "die") THEN Died
            ELSE Loop(i + report.tokensToSkip + 1, detailsPointer + 1,
                      i + report.tokensToSkip - startPos,
                      [details EXCEPT ![detailsPointer + 1] =
                          IF stdType = "_NULL_" THEN report.node
                          ELSE Ptr([report.node[1] EXCEPT !.type = stdType])])
        Loop(i, detailsPointer, skip, details) ==
            IF i >= TOKEN_LENGTH(tokens)
            THEN [node |-> Ptr([node EXCEPT !.details = details]), tokensToSkip |-> skip]
            ELSE
            LET currentToken == TokenAt(tokens, i)
            IN IF \/ currentToken.type \in {"_OP_LEFT_BRACKET_", "_OP_RIGHT_BRACE_",
                                            "_OP_CLASS_CREATOR_", "_KW_WITH_",
                                            "_KW_EXTENDS_", "_OP_CLASS_ACCESSOR_"}
                  \/ detailsPointer = detailsCount
               THEN [node |-> Ptr([node EXCEPT !.details = details]), tokensToSkip |-> skip]
               ELSE
               LET bounds == PG_get_bound_of_single_param(tokens, i)
               IN Store(i, detailsPointer, details,
                        Build("PG_create_simple_term_node", <<tokens, i, bounds, 0>>),
                        i + bounds >= TOKEN_LENGTH(tokens))
    IN Loop(startPos, addStart, 0, node.details)

PG_create_function_call_tree(tokens, startPos, outcome) ==
    LET token == TokenAt(tokens, startPos)
        functionCallNode == Node("_FUNCTION_CALL_NODE_", token.value, NULL, NULL, <<>>)
        argumentSize == PG_predict_argument_count(tokens, startPos + 1, 1)
        \* paramSize and the report, of what PG_add_params_to_node returns
        Report(added) ==
            IF added = Died THEN Died
            ELSE PG_create_node_report(added.node,
                    (IF added.tokensToSkip > 0 THEN added.tokensToSkip - 1
                     ELSE added.tokensToSkip) + 3)
    IN IF argumentSize = 0 /\ outcome = "die" THEN Died
       ELSE Report(PG_add_params_to_node(
                       PG_allocate_node_details(functionCallNode, argumentSize),
                       tokens, startPos + 2, 0, "_NULL_", outcome))

Build(builder, a) ==
    CASE builder = "PG_create_simple_term_node" ->
            PG_create_simple_term_node(a[1], a[2], a[3], a[4])
      [] builder = "PG_assign_processed_node_to_node" ->
            PG_assign_processed_node_to_node(a[1], a[2], a[3])
      [] builder = "PG_create_condition_tree" ->
            PG_create_condition_tree(a[1], a[2])
      [] builder = "PG_create_chained_condition_tree" ->
            PG_create_chained_condition_tree(a[1], a[2])

(***************************************************************************)
(* The chain builder on  while ( <chain> ) { }  for every chain of at most *)
(* MaxChainWords conditions, connectives and brackets; the conditions of   *)
(* a chain are a == 1, b == 1, c == 1, ... in the order of the source.     *)
(***************************************************************************)
MaxChainWords == 9

Connectives == {"and", "or"}

ConditionNames == <<"a", "b", "c", "d", "e", "f">>

\* chains of n words, "?" standing for a condition
ChainsOfLength[n \in 1..MaxChainWords] ==
    IF n = 1 THEN {<<"?">>}
    ELSE IF n = 2 THEN {}
    ELSE UNION {{l \o <<op>> \o r : l \in ChainsOfLength[k], r \in ChainsOfLength[n - 1 - k],
                                    op \in Connectives} : k \in 1..(n - 2)}
         \cup {<<"(">> \o t \o <<")">> : t \in ChainsOfLength[n - 2]}

RECURSIVE WriteOut(_, _)
WriteOut(words, k) ==
    IF words = <<>> THEN <<>>
    ELSE IF Head(words) = "?"
    THEN <<ConditionNames[k], "==", "1">> \o WriteOut(Tail(words), k + 1)
    ELSE <<Head(words)>> \o WriteOut(Tail(words), k)

WhileHead == <<"while", "(">>

ChainStart == Len(WhileHead)

WhileTail == <<")", "{", "}", "EOF">>

ChainInputs ==
    {Lex(WhileHead \o WriteOut(t, 1) \o WhileTail) :
        t \in UNION {ChainsOfLength[n] : n \in 1..MaxChainWords}}

InitChain ==
    /\ tokenArray \in ChainInputs
    /\ stage = "input"
    /\ built = <<>>
    /\ IdleWalk
    /\ IdleTypes
    /\ IdleSizing

\* PG_create_while_statement_tree, the condition of the statement
CreateWhileCondition ==
    /\ stage = "input"
    /\ built' = PG_create_chained_condition_tree(tokenArray, ChainStart)
    /\ stage' = "built"
    /\ UNCHANGED tokenArray
    /\ UNCHANGED walkVars
    /\ UNCHANGED typeVars
    /\ UNCHANGED sizeVars

NextChain == CreateWhileCondition

SpecChain == InitChain /\ [][NextChain]_vars

(***************************************************************************)
(* What the claims about chains speak of: the words of the chain, its      *)
(* conditions in source order, the left-deep tree over them, the tree in   *)
(* which a bracketed group is one operand, and the leaves of a tree.       *)
(***************************************************************************)
SourceChain ==
    [i \in 1..(Len(tokenArray) - Len(WhileHead) - Len(WhileTail)) |->
        tokenArray[Len(WhileHead) + i].value]

Connective(word) ==
    IF word = "and" THEN "_AND_NODE_" ELSE "_OR_NODE_"

Written(words) == SelectSeq(words, LAMBDA w : w \notin {"(", ")"})

\* the k-th condition and the connective after it, of bracket-free words
ConditionOf(words, k) ==
    Equals(Iden(words[4 * k - 3]), Num(words[4 * k - 1]))

CountConditions(words) == (Len(Written(words)) + 1) \div 4

RECURSIVE LeftDeep(_, _)
LeftDeep(words, n) ==
    IF n = 1 THEN ConditionOf(words, 1)
    ELSE Node(Connective(words[4 * (n - 1)]), words[4 * (n - 1)],
              Ptr(LeftDeep(words, n - 1)), Ptr(ConditionOf(words, n)), <<>>)

RECURSIVE Leaves(_)
Leaves(node) ==
    IF node = NULL THEN <<>>
    ELSE IF node[1].type \in {"_AND_NODE_", "_OR_NODE_"}
    THEN Leaves(node[1].leftNode) \o Leaves(node[1].rightNode)
    ELSE <<node[1]>>

RECURSIVE Grouped(_)
Grouped(words) ==
    LET joints == Outermost(words, Connectives)
        at == Greatest(joints)
    IN IF joints # {}
       THEN Node(Connective(words[at]), words[at],
                 Ptr(Grouped(SubSeq(words, 1, at - 1))),
                 Ptr(Grouped(SubSeq(words, at + 1, Len(words)))), <<>>)
       ELSE IF words[1] = "("
       THEN Grouped(SubSeq(words, 2, Len(words) - 1))
       ELSE ConditionOf(words, 1)

BracketFree == \A i \in 1..Len(SourceChain) : SourceChain[i] \notin {"(", ")"}

C19_GroupIsOneOperand ==
    stage = "built" /\ tokenArray \in ChainInputs /\ ~BracketFree =>
        /\ built.node = Ptr(Grouped(SourceChain))
        /\ Leaves(built.node) =
              [k \in 1..CountConditions(SourceChain) |-> ConditionOf(Written(SourceChain), k)]

\* What holds: a chain that starts with a condition and has nothing but
\* closing brackets behind its first closing bracket gets the tree in which
\* each group is one operand.
C19_GroupAtEndIsOneOperand ==
    (/\ stage = "built" /\ tokenArray \in ChainInputs /\ ~BracketFree
     /\ SourceChain[1] # "("
     /\ \A i, j \in 1..Len(SourceChain) :
            SourceChain[i] = ")" /\ i < j => SourceChain[j] = ")")
        => built.node = Ptr(Grouped(SourceChain))

\* ( a == 1 or b == 1 ) and c == 1  comes back as  or(a == 1, b == 1)
C19_GroupAtStartEndsChain ==
    /\ stage = "built"
    /\ SourceChain = WriteOut(<<"(", "?", "or", "?", ")", "and", "?">>, 1)
    /\ built.node = Ptr(Grouped(WriteOut(<<"?", "or", "?">>, 1)))

(***************************************************************************)
(* The builder of enums.                                                   *)
(***************************************************************************)
\* snprintf(value, 24, "%d", n): the decimal digits of n, with its sign
RECURSIVE snprintf(_)
snprintf(n) ==
    IF n < 0 THEN "-" \o snprintf(0 - n)
    ELSE IF n < 10 THEN SubSeq("0123456789", n + 1, n + 1)
    ELSE snprintf(n \div 10) \o SubSeq("0123456789", (n % 10) + 1, (n % 10) + 1)

PG_predict_enumerator_count(tokens, starPos) ==
    LET RECURSIVE Scan(_, _)
        Scan(jumper, enumCount) ==
            IF starPos + jumper >= TOKEN_LENGTH(tokens) THEN enumCount
            ELSE LET type == TokenAt(tokens, starPos + jumper).type
                 IN IF type = "_OP_LEFT_BRACE_" THEN enumCount
                    ELSE Scan(jumper + 1, IF type = "_OP_COMMA_" THEN enumCount + 1
                                          ELSE enumCount)
    IN Scan(0, 1)

\* PG_create_enum_tree; the node is NULL when the builder exits on more
\* enumerators than it has predicted
PG_create_enum_tree(tokens, startPos) ==
    LET detailsCount == PG_predict_enumerator_count(tokens, startPos + 2)
        RECURSIVE Loop(_, _, _)
        Loop(skip, details, currentEnumeratorValue) ==
            IF ~(startPos + skip < TOKEN_LENGTH(tokens))
            THEN [details |-> details, skip |-> skip, exited |-> FALSE]
            ELSE
            LET currentToken == TokenAt(tokens, startPos + skip)
            IN IF currentToken.type = "_OP_LEFT_BRACE_"
               THEN [details |-> details, skip |-> skip + 1, exited |-> FALSE]
               ELSE IF Len(details) > detailsCount
               THEN [details |-> details, skip |-> skip, exited |-> TRUE]
               ELSE IF currentToken.type \in {"_OP_COMMA_", "_OP_RIGHT_BRACE_"}
               THEN LET name == TokenAt(tokens, startPos + skip + 1).value
                        colon == TokenAt(tokens, startPos + skip + 2).type = "_OP_COLON_"
                        n == IF colon THEN atoi(TokenAt(tokens, startPos + skip + 3).value)
                             ELSE currentEnumeratorValue
                        enumeratorNode ==
                            Node("_ENUMERATOR_NODE_", name, NULL,
                                 Ptr(Leaf("_VALUE_NODE_", snprintf(n))), <<>>)
                    IN Loop(skip + (IF colon THEN 3 ELSE 2),
                            Append(details, Ptr(enumeratorNode)), n + 1)
               ELSE Loop(skip + 1, details, currentEnumeratorValue)
        looped == Loop(2, <<>>, 0)
    IN IF looped.exited THEN PG_create_node_report(NULL, 0)
       ELSE PG_create_node_report(
                Ptr(Node("_ENUM_NODE_", TokenAt(tokens, startPos + 1).value, NULL, NULL,
                         looped.details)),
                looped.skip)

(***************************************************************************)
(* The enum builder on  enum E { ... }  for every enum of 1 up to          *)
(* MaxEnumerators enumerators p, q, r, ... each without a value or with    *)
(* one of the values in ExplicitValues.                                    *)
(***************************************************************************)
MaxEnumerators == 3

ExplicitValues == {"0", "3", "12"}

EnumeratorNames == <<"p", "q", "r", "s">>

\* "" stands for an enumerator without a value
EnumValues ==
    UNION {[1..n -> ExplicitValues \cup {""}] : n \in 1..MaxEnumerators}

RECURSIVE WriteEnumerators(_, _)
WriteEnumerators(values, k) ==
    IF k > Len(values) THEN <<>>
    ELSE (IF k > 1 THEN <<",">> ELSE <<>>)
         \o <<EnumeratorNames[k]>>
         \o (IF values[k] = "" THEN <<>> ELSE <<":", values[k]>>)
         \o WriteEnumerators(values, k + 1)

WriteEnum(values) ==
    Lex(<<"enum", "E", "{">> \o WriteEnumerators(values, 1) \o <<"}", "EOF">>)

EnumInputs == {WriteEnum(values) : values \in EnumValues}

InitEnum ==
    /\ tokenArray \in EnumInputs
    /\ stage = "input"
    /\ built = <<>>
    /\ IdleWalk
    /\ IdleTypes
    /\ IdleSizing

\* PG_get_report_based_on_token, case _KW_ENUM_
CreateEnum ==
    /\ stage = "input"
    /\ built' = PG_create_enum_tree(tokenArray, 0)
    /\ stage' = "built"
    /\ UNCHANGED tokenArray
    /\ UNCHANGED walkVars
    /\ UNCHANGED typeVars
    /\ UNCHANGED sizeVars

NextEnum == CreateEnum

SpecEnum == InitEnum /\ [][NextEnum]_vars

(***************************************************************************)
(* What the claim about enums speaks of: the enumerators as written, the   *)
(* number a numeral stands for, and the values of the running counter.     *)
(***************************************************************************)
SourceEnum == CHOOSE values \in EnumValues : WriteEnum(values) = tokenArray

Numerals ==
    <<"0", "1", "2", "3", "4", "5", "6", "7", "8", "9", "10", "11", "12", "13", "14", "15">>

NumberOf(numeral) == (CHOOSE i \in 1..Len(Numerals) : Numerals[i] = numeral) - 1

RECURSIVE RunningCounter(_, _)
RunningCounter(values, k) ==
    IF values[k] # "" THEN NumberOf(values[k])
    ELSE IF k = 1 THEN 0
    ELSE RunningCounter(values, k - 1) + 1

\* C20: the value of an enumerator with an explicit value N is N, that of
\* the first enumerator without an explicit value is 0, that of every
\* other enumerator without one is the value of the enumerator before it
\* plus 1.
C20_EnumeratorsFollowRunningCounter ==
    stage = "built" /\ tokenArray \in EnumInputs =>
        /\ built.node # NULL
        /\ Len(built.node[1].details) = Len(SourceEnum)
        /\ \A k \in 1..Len(SourceEnum) :
              LET enumerator == built.node[1].details[k][1]
              IN /\ enumerator.value = EnumeratorNames[k]
                 /\ enumerator.rightNode # NULL
                 /\ enumerator.rightNode[1].value
                        = Numerals[RunningCounter(SourceEnum, k) + 1]

\* enum E { p, q : 12, r }: p is 0, q is 12, r is 13
C20_CounterGoesOnFromExplicitValue ==
    /\ stage = "built"
    /\ tokenArray = WriteEnum(<<"", "12", "">>)
    /\ [k \in 1..3 |-> built.node[1].details[k][1].rightNode[1].value] = <<"0", "12", "13">>

(***************************************************************************)
(* The sizing pass of the input reader (src/main/input.c).  The buffer is  *)
(* a sequence of characters, what a read of position k gives is            *)
(* Bytes(buf, k): position                                                 *)
(* fileLength holds the terminator reserve_buffer writes, every position   *)
(* behind it lies outside the allocation and a read there may give any     *)
(* byte.                                                                   *)
(***************************************************************************)
MaxBufferLength == 4

NUL == "NUL"

Characters == {"a", "1", " ", "\n", "\"", "\\", "-", "/", "*", ".", "#"}

AnyByte == Characters \cup {NUL}

\* the three character classes of the lexer
is_space(character) == character \in {" ", "\n", "\t", "\r"}

is_digit(character) == character \in Digits

check_for_operator(input) ==
    input \in {".", ",", "+", ";", "-", "/", "*", "^", "!", "=", "<", ">", "(", ")",
               "[", "]", "{", "}", ":", "?", "$", "%", "&", "|"}

\* the byte at an index inside the allocation of fileLength + 1 bytes
CharAt(buf, index) == IF index < Len(buf) THEN buf[index + 1] ELSE NUL

\* what a read of the byte at index may give
Bytes(buf, index) ==
    IF index <= Len(buf) THEN {CharAt(buf, index)} ELSE AnyByte

reserve_token_lengths(fileLength) == [k \in 1..fileLength |-> 0]

\* skip_buffer_comment: the number of characters to skip behind the '/'
skip_buffer_comment(buf, currentPos, bufferLength, crucialChar) ==
    LET RECURSIVE Loop(_)
        Loop(skip) ==
            IF currentPos + skip < bufferLength
            THEN IF crucialChar = "/" /\ CharAt(buf, currentPos + skip) = "\n"
                 THEN skip
                 ELSE IF /\ crucialChar = "*"
                         /\ CharAt(buf, currentPos + skip) = "*"
                         /\ CharAt(buf, currentPos + skip + 1) = "/"
                 THEN skip + 1
                 ELSE Loop(skip + 1)
            ELSE skip
    IN Loop(1)

is_correct_pointer(buf, currentBufferCharPos, maxSize) ==
    LET RECURSIVE Stars(_)
        Stars(skips) ==
            IF currentBufferCharPos + skips < maxSize
               /\ CharAt(buf, currentBufferCharPos + skips) = "*"
            THEN Stars(skips + 1)
            ELSE skips
        behind == CharAt(buf, currentBufferCharPos + Stars(0))
    IN ~(is_space(behind) \/ is_digit(behind) \/ check_for_operator(behind))

\* add_identifiers: identifierLength when the loop is left; the size written
\* is identifierLength + 1, the value returned identifierLength - 1
add_identifiers(currentBufferCharacterPosition, bufferLength, buf) ==
    LET at(k) == CharAt(buf, currentBufferCharacterPosition + k)
        RECURSIVE Loop(_, _)
        Loop(identifierLength, isInReferenceToPointer) ==
            IF ~(currentBufferCharacterPosition + identifierLength < bufferLength)
            THEN identifierLength
            ELSE IF is_space(at(identifierLength)) THEN identifierLength
            ELSE IF check_for_operator(at(identifierLength))
                    /\ at(identifierLength) = "&"
            THEN Loop(identifierLength + 1,
                      isInReferenceToPointer \/ at(identifierLength + 1) = "(")
            ELSE IF check_for_operator(at(identifierLength))
                    /\ at(identifierLength) = "."
            THEN IF is_digit(at(identifierLength - 1)) /\ is_digit(at(identifierLength + 1))
                 THEN Loop(identifierLength + 1, isInReferenceToPointer)
                 ELSE identifierLength
            ELSE IF check_for_operator(at(identifierLength))
                    /\ at(identifierLength) = "*"
                    /\ isInReferenceToPointer
            THEN Loop(identifierLength + 1, isInReferenceToPointer)
            ELSE IF check_for_operator(at(identifierLength))
                    /\ at(identifierLength) \in {")", "("}
            THEN IF isInReferenceToPointer
                 THEN Loop(identifierLength + 1, FALSE)
                 ELSE identifierLength
            ELSE IF check_for_operator(at(identifierLength))
                    /\ at(identifierLength) = "-"
                    /\ is_digit(at(identifierLength + 1))
            THEN Loop(identifierLength + 1, isInReferenceToPointer)
            ELSE IF check_for_operator(at(identifierLength))
                    /\ at(identifierLength) # "*"
            THEN identifierLength
            ELSE IF at(identifierLength + 1) = "#" THEN identifierLength
            ELSE Loop(identifierLength + 1, isInReferenceToPointer)
    IN Loop(0, FALSE)

check_double_operator(currentInputChar, NextInputChar) ==
    \/ currentInputChar \in {"+", "-", "/", "*", "!"} /\ NextInputChar = "="
    \/ currentInputChar = "+" /\ NextInputChar = "+"
    \/ currentInputChar = "-" /\ NextInputChar = "-"
    \/ currentInputChar = "=" /\ NextInputChar = "="
    \/ currentInputChar \in {"<", ">"} /\ NextInputChar = "="
    \/ currentInputChar = "-" /\ NextInputChar = ">"
    \/ currentInputChar = "=" /\ NextInputChar = ">"

\* set_operator_size: 1 for a double operator (size 3), 0 otherwise (size 2)
set_operator_size(buf, bufferLength, currentBufferCharacterPosition) ==
    IF /\ currentBufferCharacterPosition + 1 < bufferLength
       /\ check_double_operator(CharAt(buf, currentBufferCharacterPosition),
                                CharAt(buf, currentBufferCharacterPosition + 1))
    THEN 1
    ELSE 0

\* skip_string: the values lengthOfString may have when the loop is left
\* (one value unless the loop reads behind the allocation); the size
\* written is lengthOfString + 2
skip_string(buf, bufferLength, currentBufferCharacterPosition, currentTokenNumber) ==
    LET RECURSIVE Loop(_, _)
        Loop(lengthOfString, before) ==
            IF ~(currentTokenNumber + lengthOfString < bufferLength)
            THEN {lengthOfString}
            ELSE UNION {IF here # "\"" \/ before = "\\"
                        THEN Loop(lengthOfString + 1, here)
                        ELSE {lengthOfString} :
                        here \in Bytes(buf, currentBufferCharacterPosition + lengthOfString)}
    IN Loop(1, CharAt(buf, currentBufferCharacterPosition))

\* the loop of skip_string reads a byte behind the allocation
ReadsBehindBuffer(buf, bufferLength, currentBufferCharacterPosition, currentTokenNumber) ==
    \E lengthOfString \in skip_string(buf, bufferLength, currentBufferCharacterPosition,
                                      currentTokenNumber) :
        currentBufferCharacterPosition + lengthOfString - 1 > bufferLength

(***************************************************************************)
(* get_minimum_token_number on every buffer of at most MaxBufferLength     *)
(* characters and on some longer ones: one action per way round its loop.  *)
(***************************************************************************)
LongBuffers ==
    {<<"\"", "a", "\\", "\\", "\"">>,
     <<"\"", "a", "\"", " ", "a">>,
     <<"a", " ", "\"", "a", "\"">>,
     <<"\"", "a", " ", "1", "\"">>,
     <<"\"", "/", "/", "a", "\"">>,
     <<"\"", "/", "*", "a", "\"", "a">>,
     <<"\"", "a", "\\", "\"", "a", "\"">>,
     <<"-", "1", ".", "1", " ">>,
     <<"1", "-", "1", ".", "1">>,
     <<"a", " ", "-", " ", "1">>,
     <<"/", "*", "a", "*", "/">>,
     <<"/", "*", "a", "*", "/", "a">>,
     <<"a", " ", "/", "*", "a">>,
     <<"a", " ", "a", " ", "\"", "a">>}

SizingInputs ==
    LongBuffers \cup UNION {[1..n -> Characters] : n \in 1..MaxBufferLength}

fileLength == Len(INPUT_BUFFER)

InitSizing ==
    /\ INPUT_BUFFER \in SizingInputs
    /\ bufferPos = 0
    /\ tokenNumber = 0
    /\ ARRAY_OF_INDIVIDUAL_TOKEN_SIZES = reserve_token_lengths(Len(INPUT_BUFFER))
    /\ sized = <<>>
    /\ sizing = "loop"
    /\ IdleWalk
    /\ IdleTypes
    /\ IdleParse

InLoop == sizing = "loop" /\ bufferPos < fileLength

Current == CharAt(INPUT_BUFFER, bufferPos)

Following == CharAt(INPUT_BUFFER, bufferPos + 1)

IsComment == Current = "/" /\ Following \in {"/", "*"}

isWhitespace == is_space(Current)

isOperator ==
    /\ ~isWhitespace
    /\ check_for_operator(Current)
    /\ ~(Current = "&" \/ is_correct_pointer(INPUT_BUFFER, bufferPos, fileLength))
    /\ ~(Current = "-" /\ is_digit(Following))

\* The callee writes the size at index tokenNumber of the array, the loop
\* adds what it returned to i, counts the token and goes on with i++.  A
\* write at an index of fileLength or more lies behind the array.
CountToken(size, skip, by) ==
    IF tokenNumber < fileLength
    THEN /\ ARRAY_OF_INDIVIDUAL_TOKEN_SIZES' =
                [ARRAY_OF_INDIVIDUAL_TOKEN_SIZES EXCEPT ![tokenNumber + 1] = size]
         /\ sized' = Append(sized, [at |-> bufferPos, by |-> by])
         /\ tokenNumber' = tokenNumber + 1
         /\ bufferPos' = bufferPos + skip + 1
         /\ UNCHANGED <<INPUT_BUFFER, sizing>>
    ELSE /\ sizing' = "overflow"
         /\ UNCHANGED <<INPUT_BUFFER, bufferPos, tokenNumber,
                        ARRAY_OF_INDIVIDUAL_TOKEN_SIZES, sized>>

SkipComment ==
    /\ InLoop
    /\ IsComment
    /\ bufferPos' = bufferPos + 1
            + skip_buffer_comment(INPUT_BUFFER, bufferPos, fileLength, Following)
    /\ UNCHANGED <<INPUT_BUFFER, tokenNumber, ARRAY_OF_INDIVIDUAL_TOKEN_SIZES, sized, sizing>>
    /\ UNCHANGED <<walkVars, typeVars, parseVars>>

SkipWhitespace ==
    /\ InLoop
    /\ ~IsComment
    /\ isWhitespace
    /\ bufferPos' = bufferPos + 1
    /\ UNCHANGED <<INPUT_BUFFER, tokenNumber, ARRAY_OF_INDIVIDUAL_TOKEN_SIZES, sized, sizing>>
    /\ UNCHANGED <<walkVars, typeVars, parseVars>>

SizeString ==
    /\ InLoop
    /\ ~IsComment
    /\ Current = "\""
    /\ \E lengthOfString \in skip_string(INPUT_BUFFER, fileLength, bufferPos, tokenNumber) :
            CountToken(lengthOfString + 2, lengthOfString, "skip_string")
    /\ UNCHANGED <<walkVars, typeVars, parseVars>>

\* the read behind the allocation hits memory the process may not read
StringReadFault ==
    /\ InLoop
    /\ ~IsComment
    /\ Current = "\""
    /\ ReadsBehindBuffer(INPUT_BUFFER, fileLength, bufferPos, tokenNumber)
    /\ sizing' = "fault"
    /\ UNCHANGED <<INPUT_BUFFER, bufferPos, tokenNumber, ARRAY_OF_INDIVIDUAL_TOKEN_SIZES, sized>>
    /\ UNCHANGED <<walkVars, typeVars, parseVars>>

SizeOperator ==
    /\ InLoop
    /\ ~IsComment
    /\ Current # "\""
    /\ isOperator
    /\ LET double == set_operator_size(INPUT_BUFFER, fileLength, bufferPos)
       IN CountToken(double + 2, double, "set_operator_size")
    /\ UNCHANGED <<walkVars, typeVars, parseVars>>

SizeIdentifier ==
    /\ InLoop
    /\ ~IsComment
    /\ Current # "\""
    /\ ~isWhitespace
    /\ ~isOperator
    /\ LET identifierLength == add_identifiers(bufferPos, fileLength, INPUT_BUFFER)
       IN CountToken(identifierLength + 1, identifierLength - 1, "add_identifiers")
    /\ UNCHANGED <<walkVars, typeVars, parseVars>>

ReturnTokenNumber ==
    /\ sizing = "loop"
    /\ ~(bufferPos < fileLength)
    /\ sizing' = "returned"
    /\ UNCHANGED <<INPUT_BUFFER, bufferPos, tokenNumber, ARRAY_OF_INDIVIDUAL_TOKEN_SIZES, sized>>
    /\ UNCHANGED <<walkVars, typeVars, parseVars>>

NextSizing ==
    \/ SkipComment
    \/ SkipWhitespace
    \/ SizeString
    \/ StringReadFault
    \/ SizeOperator
    \/ SizeIdentifier
    \/ ReturnTokenNumber

SpecSizing == InitSizing /\ [][NextSizing]_vars /\ WF_vars(NextSizing)

(***************************************************************************)
(* What the claims about the sizing pass speak of: the lexical structure   *)
(* of a buffer as the language defines it.  A string runs from its opening *)
(* quote to the first quote behind it that is not escaped, a backslash     *)
(* escaping the one character behind it; a block comment runs from its     *)
(* opening marker to the first closing marker behind that.                 *)
(***************************************************************************)
\* the position of the first unescaped quote at or behind p, Len(buf) or
\* more if there is none
RECURSIVE ClosingQuote(_, _)
ClosingQuote(buf, p) ==
    IF p >= Len(buf) THEN p
    ELSE IF CharAt(buf, p) = "\\" THEN ClosingQuote(buf, p + 2)
    ELSE IF CharAt(buf, p) = "\"" THEN p
    ELSE ClosingQuote(buf, p + 1)

\* the position of the '/' of the first closing marker at or behind p
RECURSIVE CommentEnd(_, _)
CommentEnd(buf, p) ==
    IF p + 1 >= Len(buf) THEN Len(buf)
    ELSE IF CharAt(buf, p) = "*" /\ CharAt(buf, p + 1) = "/" THEN p + 1
    ELSE CommentEnd(buf, p + 1)

RECURSIVE LineEnd(_, _)
LineEnd(buf, p) ==
    IF p >= Len(buf) \/ CharAt(buf, p) = "\n" THEN p ELSE LineEnd(buf, p + 1)

\* a string or a block comment of the buffer is never closed
RECURSIVE UnterminatedFrom(_, _)
UnterminatedFrom(buf, p) ==
    IF p >= Len(buf) THEN FALSE
    ELSE IF CharAt(buf, p) = "\""
    THEN ClosingQuote(buf, p + 1) >= Len(buf)
            \/ UnterminatedFrom(buf, ClosingQuote(buf, p + 1) + 1)
    ELSE IF CharAt(buf, p) = "/" /\ CharAt(buf, p + 1) = "*"
    THEN CommentEnd(buf, p + 2) >= Len(buf)
            \/ UnterminatedFrom(buf, CommentEnd(buf, p + 2) + 1)
    ELSE IF CharAt(buf, p) = "/" /\ CharAt(buf, p + 1) = "/"
    THEN UnterminatedFrom(buf, LineEnd(buf, p + 2) + 1)
    ELSE UnterminatedFrom(buf, p + 1)

Unterminated == UnterminatedFrom(INPUT_BUFFER, 0)

HasHash == \E k \in 1..fileLength : INPUT_BUFFER[k] = "#"

\* C21: the sizing pass never returns a token count for a buffer with a
\* string that has no closing unescaped quote or a block comment that has
\* no closing marker.
C21_UnterminatedInputIsFatal == Unterminated => sizing # "returned"

\* what holds instead: the pass goes through such a buffer like through any
\* other and returns its count, unless the string scan reads behind the
\* buffer and faults
C21_UnterminatedInputIsSized ==
    [](Unterminated /\ ~HasHash => <>(sizing \in {"returned", "fault"}))

\* the buffer "a : one token of size 4 is counted and returned
C21_OpenStringCounted ==
    /\ INPUT_BUFFER = <<"\"", "a">>
    /\ sizing = "returned"
    /\ tokenNumber = 1
    /\ ARRAY_OF_INDIVIDUAL_TOKEN_SIZES = <<4, 0>>

\* the buffer /*a : no token, the count 0 is returned
C21_OpenCommentCounted ==
    /\ INPUT_BUFFER = <<"/", "*", "a">>
    /\ sizing = "returned"
    /\ tokenNumber = 0

\* the tokens of the pass that are strings, by their index in `sized`
StringTokens == {k \in 1..Len(sized) : sized[k].by = "skip_string"}

\* token k is one token from its first byte to the byte at position `end`:
\* its size is the number of its bytes plus the terminator, and the pass
\* goes on behind `end`
RunsTo(k, end) ==
    /\ ARRAY_OF_INDIVIDUAL_TOKEN_SIZES[k] = end - sized[k].at + 2
    /\ IF k < Len(sized) THEN sized[k + 1].at > end ELSE bufferPos > end

\* the position of the first quote at or behind p that has no backslash
\* right before it
RECURSIVE QuoteNotBehindBackslash(_, _)
QuoteNotBehindBackslash(buf, p) ==
    IF p >= Len(buf) THEN p
    ELSE IF CharAt(buf, p) = "\"" /\ CharAt(buf, p - 1) # "\\" THEN p
    ELSE QuoteNotBehindBackslash(buf, p + 1)

\* C22: every string is one token that runs from its opening quote to the
\* first quote behind it that is not escaped, a backslash escaping exactly
\* the one character behind it; nothing between the two quotes starts a
\* token or a comment.
C22_StringRunsToUnescapedQuote ==
    \A k \in StringTokens :
        LET closing == ClosingQuote(INPUT_BUFFER, sized[k].at + 1)
        IN closing < fileLength => RunsTo(k, closing)

\* what holds instead: the string runs to the first quote that has no
\* backslash right before it, whether that backslash is itself escaped or
\* not
C22_StringRunsToQuoteNotBehindBackslash ==
    \A k \in StringTokens :
        LET closing == QuoteNotBehindBackslash(INPUT_BUFFER, sized[k].at + 1)
        IN closing < fileLength => RunsTo(k, closing)

\* the buffer "\\" (a string that holds one escaped backslash): the scan
\* goes over the closing quote and the token gets the size 6, not 5
C22_EscapedBackslashHidesQuote ==
    /\ INPUT_BUFFER = <<"\"", "\\", "\\", "\"">>
    /\ sizing = "returned"
    /\ tokenNumber = 1
    /\ ARRAY_OF_INDIVIDUAL_TOKEN_SIZES[1] = 6

\* the buffer "//a" : one token of size 6, no comment is started inside
C22_CommentMarkerInsideString ==
    /\ INPUT_BUFFER = <<"\"", "/", "/", "a", "\"">>
    /\ sizing = "returned"
    /\ tokenNumber = 1
    /\ ARRAY_OF_INDIVIDUAL_TOKEN_SIZES[1] = 6

\* the bytes of token k: its size counts them and the terminator
Lexeme(k) ==
    SubSeq(INPUT_BUFFER, sized[k].at + 1,
           sized[k].at + ARRAY_OF_INDIVIDUAL_TOKEN_SIZES[k] - 1)

AllDigits(text) == Len(text) > 0 /\ \A k \in 1..Len(text) : is_digit(text[k])

\* [-]?[0-9]+ or [-]?[0-9]+.[0-9]+
NumberLiteral(text) ==
    LET unsigned == IF Len(text) > 0 /\ text[1] = "-" THEN Tail(text) ELSE text
    IN \/ AllDigits(unsigned)
       \/ \E dot \in 1..Len(unsigned) :
            /\ unsigned[dot] = "."
            /\ AllDigits(SubSeq(unsigned, 1, dot - 1))
            /\ AllDigits(SubSeq(unsigned, dot + 1, Len(unsigned)))

\* the byte at position p is a '-' with a digit right behind it
SignAt(p) == CharAt(INPUT_BUFFER, p) = "-" /\ is_digit(CharAt(INPUT_BUFFER, p + 1))

\* the tokens outside strings that hold a '-' with a digit right behind it
SignedTokens ==
    {k \in 1..Len(sized) :
        /\ sized[k].by # "skip_string"
        /\ \E p \in sized[k].at..(sized[k].at + Len(Lexeme(k)) - 1) : SignAt(p)}

\* C23: a '-' with a digit right behind it is the sign of that number: its
\* token is no operator token, the '-' is the first byte of the token, and
\* the token is a number literal.
C23_SignStartsNumberLiteral ==
    \A k \in SignedTokens :
        /\ sized[k].by = "add_identifiers"
        /\ \A p \in sized[k].at..(sized[k].at + Len(Lexeme(k)) - 1) :
                SignAt(p) => p = sized[k].at
        /\ NumberLiteral(Lexeme(k))

\* what holds instead: no operator token starts at such a '-'; the '-' is
\* joined to the run of bytes it stands in, whatever stands before it (a
\* '#' behind the digit cuts the run right behind the '-')
C23_SignIsJoinedToItsRun ==
    \A k \in 1..Len(sized) :
        SignAt(sized[k].at) =>
            /\ sized[k].by = "add_identifiers"
            /\ Len(Lexeme(k)) >= 2 \/ CharAt(INPUT_BUFFER, sized[k].at + 2) = "#"

\* the buffer a-1 : one token of the three bytes a-1
C23_SubtractionIsOneLexeme ==
    /\ INPUT_BUFFER = <<"a", "-", "1">>
    /\ sizing = "returned"
    /\ tokenNumber = 1
    /\ Lexeme(1) = <<"a", "-", "1">>

\* the buffer -1.1 followed by a blank: one token, the number literal -1.1
C23_SignedNumberIsOneLexeme ==
    /\ INPUT_BUFFER = <<"-", "1", ".", "1", " ">>
    /\ sizing = "returned"
    /\ tokenNumber = 1
    /\ Lexeme(1) = <<"-", "1", ".", "1">>

\* a round of the loop of get_minimum_token_number
LoopRound == sizing = "loop" /\ sizing' = "loop"

Ended == sizing \in {"returned", "fault"}

\* C25: the sizing pass terminates on every buffer: each round of its loop
\* moves the read position forward by at least one byte, no size is written
\* at an index of the buffer length or more, and the pass returns.
C25_SizingPassTerminates ==
    /\ [][LoopRound => bufferPos' > bufferPos]_vars
    /\ [](sizing # "overflow")
    /\ <>Ended

\* what holds instead: all of this for the buffers that hold no '#'
C25_SizingPassTerminatesWithoutHash ==
    /\ [][LoopRound /\ ~HasHash => bufferPos' > bufferPos]_vars
    /\ [](~HasHash => sizing # "overflow")
    /\ [](~HasHash => <>Ended)

\* the buffer a# : the round at 'a' leaves the position where it was and
\* counts a token each time, until the size is written behind the array
C25_HashStallsThePass ==
    /\ INPUT_BUFFER = <<"a", "#">>
    /\ sizing = "overflow"
    /\ bufferPos = 0
    /\ tokenNumber = fileLength

(***************************************************************************)
(* The analyzer on declarations with modifiers: a class A, variables x and *)
(* y and a function f, each without a modifier or declared global, secure  *)
(* or private, in the outermost scope, in the body of A and in the body of *)
(* f.                                                                      *)
(***************************************************************************)
MaxModifierStmts == 3

ModifierWords == {"", "global", "secure", "private"}

NextModifier ==
    \/ AddClass({Class(word, "A") : word \in ModifierWords}, MaxModifierStmts)
    \/ AddNormalVariable({Var("_VAR_NODE_", word, "", name, NULL) :
                             word \in ModifierWords, name \in {"x", "y"}},
                         MaxModifierStmts)
    \/ AddFunction({Function(word, "f", "", <<>>) : word \in ModifierWords},
                   MaxModifierStmts)
    \/ EndRunnable

SpecModifier == Init /\ [][NextModifier]_vars

\* the statement handled last is a declaration with a modifier other than
\* package-global
DeclaredWithModifier ==
    /\ Handled({"_VAR_NODE_", "_CONST_NODE_", "_FUNCTION_NODE_", "_CLASS_NODE_"})
    /\ SA_get_visibility(last[1].node.leftNode) \in {"GLOBAL", "SECURE", "PRIVATE"}

\* ... and it stands in a class scope: in the body of a class or in a scope
\* nested in one
DeclaredInClass ==
    last[1].before[SA_get_next_table_of_type(last[1].before, last[1].table, "CLASS")].type
        = "CLASS"

ModifierDiagnosed ==
    \E k \in 1..Len(diags) :
        diags[k].description = Ptr("Modifiers outside of classes are not allowed.")

\* C24: a declaration with a modifier other than package-global that stands
\* outside every class scope is diagnosed when it is declared; with the
\* same modifier inside a class scope it is not.
C24_ModifierOutsideClassDiagnosed ==
    DeclaredWithModifier =>
        IF DeclaredInClass THEN ~ModifierDiagnosed ELSE diags # <<>>

\* what holds instead: no declaration is diagnosed for its modifier,
\* wherever it stands; a declaration that is accepted leaves the modifier
\* in its entry
C24_ModifierStoredUndiagnosed ==
    DeclaredWithModifier =>
        /\ ~ModifierDiagnosed
        /\ diags = <<>> =>
              LET scope == tables[last[1].table].symbolTable
                  name == last[1].node.value
              IN /\ HM_contains_key(name, scope)
                 /\ HM_get_entry(name, scope).visibility
                        = SA_get_visibility(last[1].node.leftNode)

\* private var x; in the outermost scope: accepted, x is entered as PRIVATE
C24_PrivateVariableAcceptedOutside ==
    /\ DeclaredWithModifier
    /\ last[1].node = Var("_VAR_NODE_", "private", "", "x", NULL)
    /\ tables[last[1].table].type = "MAIN"
    /\ diags = <<>>
    /\ HM_get_entry("x", tables[1].symbolTable).visibility = "PRIVATE"

\* private var x; in the body of class A: accepted
C24_PrivateVariableAcceptedInClass ==
    /\ DeclaredWithModifier
    /\ last[1].node = Var("_VAR_NODE_", "private", "", "x", NULL)
    /\ tables[last[1].table].type = "CLASS"
    /\ diags = <<>>

(***************************************************************************)
(* The analyzer on identifiers in call arguments: a function f with one    *)
(* parameter, named a or p, a function g, a variable a, a variable r       *)
(* initialised with the call f(a) and a variable s initialised with a, in  *)
(* the outermost scope and in the bodies of f and g.                       *)
(***************************************************************************)
MaxArgumentStmts == 4

CallWithIdentifier == Call("f", <<Iden("a")>>)

NextArgument ==
    \/ AddFunction({Function("", "f", "", <<Param(name, "")>>) : name \in {"a", "p"}}
                      \cup {Function("", "g", "", <<>>)},
                   MaxArgumentStmts)
    \/ AddNormalVariable({Var("_VAR_NODE_", "", "", "a", NULL),
                          Var("_VAR_NODE_", "", "", "r", Ptr(CallWithIdentifier)),
                          Var("_VAR_NODE_", "", "", "s", Ptr(Iden("a")))},
                         MaxArgumentStmts)
    \/ EndRunnable

SpecArgument == Init /\ [][NextArgument]_vars

\* the statement handled last is  var r = f(a);  r is new and f is the name
\* of a function at the place of the call
CallsWithIdentifier ==
    /\ Handled({"_VAR_NODE_"})
    /\ last[1].node.rightNode = Ptr(CallWithIdentifier)
    /\ ~OnChain(last[1].before, last[1].table, "r")
    /\ OnChain(last[1].before, last[1].table, "f")

\* the table of the function the call names
Callee == NearestEntry(last[1].before, last[1].table, "f").reference

\* C26: the identifier a in the argument of f(a) is resolved on the scope
\* chain of the place of the call, as in a plain expression there: it is
\* reported as not defined if and only if no table on that chain holds it.
C26_ArgumentResolvedAtCallSite ==
    CallsWithIdentifier =>
        (Emitted("NOT_DEFINED_EXCEPTION")
            <=> ~OnChain(last[1].before, last[1].table, "a"))

\* what holds instead: it is resolved on the scope chain of the called
\* function
C26_ArgumentResolvedInCallee ==
    CallsWithIdentifier =>
        (Emitted("NOT_DEFINED_EXCEPTION") <=> ~OnChain(last[1].before, Callee, "a"))

\* function f(p) {}  function g() { var a; var r = f(a); } : the local a of
\* g is reported as not defined
C26_LocalOfCallerNotFound ==
    /\ CallsWithIdentifier
    /\ tables[last[1].table].type = "FUNCTION"
    /\ HoldsName(last[1].before[last[1].table], "a")
    /\ Emitted("NOT_DEFINED_EXCEPTION")

\* function f(a) {}  var r = f(a); : there is no a at the place of the
\* call, the parameter a of f is the entry used and nothing is reported
C26_ParameterOfCalleeUsed ==
    /\ CallsWithIdentifier
    /\ last[1].table = 1
    /\ ~OnChain(last[1].before, last[1].table, "a")
    /\ HoldsName(last[1].before[Callee], "a")
    /\ diags = <<>>

(***************************************************************************)
(* The analyzer on arithmetic expressions in call arguments: a function f  *)
(* with one parameter, untyped or declared int, and a variable r           *)
(* initialised with a call of f on a number, on a term of two numbers      *)
(* under each of the five arithmetic operators, or on a sum of a number    *)
(* and a string.                                                           *)
(***************************************************************************)
MaxExpressionStmts == 3

ArithmeticKinds ==
    {"_PLUS_NODE_", "_MINUS_NODE_", "_MULTIPLY_NODE_", "_DIVIDE_NODE_", "_MODULO_NODE_"}

Arithmetic(kind, l, r) == Node(kind, "op", Ptr(l), Ptr(r), <<>>)

ExpressionArguments ==
    {Num("1"), Arithmetic("_PLUS_NODE_", Num("1"), Str("\"hi\""))}
        \cup {Arithmetic(kind, Num("1"), Num("2")) : kind \in ArithmeticKinds}

NextExpression ==
    \/ AddFunction({Function("", "f", "", <<Param("p", type)>>) : type \in {"", "int"}},
                   MaxExpressionStmts)
    \/ AddNormalVariable({Var("_VAR_NODE_", "", "", "r", Ptr(Call("f", <<argument>>))) :
                             argument \in ExpressionArguments},
                         MaxExpressionStmts)
    \/ EndRunnable

SpecExpression == Init /\ [][NextExpression]_vars

\* the statement handled last is  var r = f(<term>);  r is new, f is the
\* name of a function at the place of the call and the term is arithmetic
PassesArithmetic ==
    /\ Handled({"_VAR_NODE_"})
    /\ last[1].node.rightNode # NULL
    /\ last[1].node.rightNode[1].type = "_FUNCTION_CALL_NODE_"
    /\ SA_is_node_arithmetic_operator(last[1].node.rightNode[1].details[1][1])
    /\ ~OnChain(last[1].before, last[1].table, "r")
    /\ OnChain(last[1].before, last[1].table, "f")

\* the declared type of the parameter of the function called
ExpectedOfParameter ==
    last[1].before[NearestEntry(last[1].before, last[1].table, "f").reference].paramList[1].dec

\* every operand of the argument satisfies the type of the parameter
OperandsSatisfyParameter ==
    LET operands == Operands(last[1].node.rightNode[1].details[1])
    IN \A i \in 1..Len(operands) :
            LenientEqualAsSpecified(ExpectedOfParameter,
                OperandType(operands[i], last[1].before, last[1].table))

\* C27: an arithmetic expression whose operands all satisfy the type of the
\* parameter it is passed for has that type itself: the call produces no
\* diagnostic.
C27_ArithmeticArgumentAccepted ==
    PassesArithmetic /\ OperandsSatisfyParameter => diags = <<>>

\* what holds instead: the expression gets the null type, which only an
\* untyped parameter takes; for a typed parameter the call is reported as
\* a type mismatch
C27_ArithmeticArgumentHasNullType ==
    PassesArithmetic /\ OperandsSatisfyParameter =>
        IF ExpectedOfParameter.type = "CUSTOM" THEN diags = <<>>
        ELSE /\ Len(diags) = 1
             /\ diags[1].errorType = "TYPE_MISMATCH_EXCEPTION"
             /\ diags[1].description
                    = Ptr("Expected " \o SA_get_VarType_string(ExpectedOfParameter)
                          \o ", but got " \o SA_get_VarType_string(nullDec) \o " instead.")

\* function f(p:int) {}  var r = f(1 + 2); : reported as a type mismatch
C27_SumForIntParameterReported ==
    /\ PassesArithmetic
    /\ last[1].node.rightNode = Ptr(Call("f", <<Arithmetic("_PLUS_NODE_", Num("1"), Num("2"))>>))
    /\ ExpectedOfParameter.type = "INTEGER"
    /\ Emitted("TYPE_MISMATCH_EXCEPTION")

\* function f(p:int) {}  var r = f(1); : accepted
C27_NumberForIntParameterAccepted ==
    /\ Handled({"_VAR_NODE_"})
    /\ last[1].node.rightNode = Ptr(Call("f", <<Num("1")>>))
    /\ OnChain(last[1].before, last[1].table, "f")
    /\ ExpectedOfParameter.type = "INTEGER"
    /\ diags = <<>>

(***************************************************************************)
(* Function call nodes (parsetreeGenerator.c 2601-2788): the details array *)
(* is sized by PG_predict_argument_count and filled by                     *)
(* PG_add_params_to_node.                                                  *)
(***************************************************************************)
MaxCallArguments == 3

\* The arguments of the calls: an identifier, a number, a sum and a call
\* of two arguments
CallArguments ==
    {<<"a">>, <<"2">>, <<"a", "+", "2">>, <<"g", "(", "a", ",", "b", ")">>}

ArgumentLists == UNION {[1..n -> CallArguments] : n \in 0..MaxCallArguments}

RECURSIVE WriteArguments(_, _)
WriteArguments(arguments, k) ==
    IF k > Len(arguments) THEN <<>>
    ELSE arguments[k] \o (IF k < Len(arguments) THEN <<",">> ELSE <<>>)
         \o WriteArguments(arguments, k + 1)

WriteCall(arguments) == <<"f", "(">> \o WriteArguments(arguments, 1) \o <<")">>

\* the call as the whole value, as the argument of another call, and
\* before a statement that holds a comma
CallInputs ==
    UNION {{Lex(Declaration \o WriteCall(l) \o <<";", "EOF">>),
            Lex(Declaration \o <<"h", "(">> \o WriteCall(l) \o <<")", ";", "EOF">>),
            Lex(Declaration \o WriteCall(l)
                \o <<";", "h", "(", "c", ",", "d", ")", ";", "EOF">>)} :
           l \in ArgumentLists}

InitCallTree ==
    /\ tokenArray \in CallInputs
    /\ stage = "input"
    /\ built = <<>>
    /\ IdleWalk
    /\ IdleTypes
    /\ IdleSizing

\* the index of the identifier of the call of f
CallStart == CHOOSE k \in 0..(Len(tokenArray) - 1) : TokenAt(tokenArray, k).value = "f"

\* PG_get_member_access_side_node_tree, the branch of PG_is_function_call
CreateFunctionCall ==
    /\ stage = "input"
    /\ \E outcome \in CallOutcomes :
           built' = PG_create_function_call_tree(tokenArray, CallStart, outcome)
    /\ stage' = "built"
    /\ UNCHANGED tokenArray
    /\ UNCHANGED walkVars
    /\ UNCHANGED typeVars
    /\ UNCHANGED sizeVars

NextCallTree == CreateFunctionCall

SpecCallTree == InitCallTree /\ [][NextCallTree]_vars

\* the index of the ')' that closes the '(' at open
RECURSIVE ClosingBracket(_, _, _)
ClosingBracket(tokens, k, depth) ==
    LET type == TokenAt(tokens, k).type
        inner == IF type = "_OP_RIGHT_BRACKET_" THEN depth + 1
                 ELSE IF type = "_OP_LEFT_BRACKET_" THEN depth - 1
                 ELSE depth
    IN IF inner = 0 THEN k ELSE ClosingBracket(tokens, k + 1, inner)

\* the depth of brackets at index k, counted from the '(' at open
RECURSIVE DepthAt(_, _, _)
DepthAt(tokens, open, k) ==
    IF k < open THEN 0
    ELSE LET type == TokenAt(tokens, k).type
             before == DepthAt(tokens, open, k - 1)
         IN IF type = "_OP_RIGHT_BRACKET_" THEN before + 1
            ELSE IF type = "_OP_LEFT_BRACKET_" THEN before - 1
            ELSE before

CallOpen == CallStart + 1

CallClose == ClosingBracket(tokenArray, CallOpen, 0)

\* the commas that separate the arguments of the call, the commas in its
\* inner brackets, and the commas behind its ')'
TopLevelCommas ==
    {k \in CallOpen..CallClose : /\ TokenAt(tokenArray, k).type = "_OP_COMMA_"
                                 /\ DepthAt(tokenArray, CallOpen, k) = 1}

NestedCommas ==
    {k \in CallOpen..CallClose : /\ TokenAt(tokenArray, k).type = "_OP_COMMA_"
                                 /\ DepthAt(tokenArray, CallOpen, k) > 1}

CommasBehindCall ==
    {k \in CallClose..(Len(tokenArray) - 1) : TokenAt(tokenArray, k).type = "_OP_COMMA_"}

TopLevelArguments ==
    IF CallClose = CallOpen + 1 THEN 0 ELSE Cardinality(TopLevelCommas) + 1

CallBuilt == stage = "built" /\ tokenArray \in CallInputs /\ built # Died

ArgumentChildren == built.node[1].details

\* C28 (as stated): the call node has one child per top-level argument and
\* no null child, whatever commas stand in inner brackets or behind the call
C28_OneChildPerTopLevelArgument ==
    CallBuilt =>
        /\ Len(ArgumentChildren) = TopLevelArguments
        /\ \A k \in 1..Len(ArgumentChildren) : ArgumentChildren[k] # NULL

Primitive == PG_predict_primitive_param_count(tokenArray, CallOpen) # -1

\* what holds instead: a call of no argument or of one identifier or number
\* has as many children as arguments; every other call has one slot more
\* for each comma in inner brackets and for each comma up to the next call
\* that closes the brackets counted, never fewer slots than arguments
C28_SlotPerCommaSeen ==
    CallBuilt =>
        /\ Len(ArgumentChildren) >= TopLevelArguments
        /\ Primitive => Len(ArgumentChildren) = TopLevelArguments
        /\ (~Primitive /\ NestedCommas = {} /\ CommasBehindCall = {}) =>
               /\ Len(ArgumentChildren) = TopLevelArguments
               /\ \A k \in 1..Len(ArgumentChildren) : ArgumentChildren[k] # NULL
        /\ ~Primitive =>
               Len(ArgumentChildren) = TopLevelArguments + Cardinality(NestedCommas)
                                       + Cardinality(CommasBehindCall)

\* var x = h(f(g(a, b), c)); : three slots for two arguments, the last NULL
C28_NestedCommaGivesNullChild ==
    /\ CallBuilt
    /\ tokenArray = Lex(Declaration \o <<"h", "(", "f", "(", "g", "(", "a", ",", "b", ")",
                                         ",", "a", ")", ")", ";", "EOF">>)
    /\ TopLevelArguments = 2
    /\ Len(ArgumentChildren) = 3
    /\ ArgumentChildren[3] = NULL

\* var x = f(a, 2); h(c, d); : the comma of the next statement is counted
C28_CommaBehindCallCounted ==
    /\ CallBuilt
    /\ tokenArray = Lex(Declaration \o <<"f", "(", "a", ",", "2", ")", ";",
                                         "h", "(", "c", ",", "d", ")", ";", "EOF">>)
    /\ TopLevelArguments = 2
    /\ Len(ArgumentChildren) = 3

\* var x = f(a, 2); : two children for two arguments
C28_PlainCallHasChildPerArgument ==
    /\ CallBuilt
    /\ tokenArray = Lex(Declaration \o <<"f", "(", "a", ",", "2", ")", ";", "EOF">>)
    /\ Len(ArgumentChildren) = 2
    /\ \A k \in 1..2 : ArgumentChildren[k] # NULL

(***************************************************************************)
(* Calls of names that are no functions: a variable, a class and an enum   *)
(* are declared and called with no and with one argument, next to a        *)
(* function.                                                               *)
(***************************************************************************)
MaxNonFunctionStmts == 3

CalledNames == {"x", "A", "E", "f"}

NextNonFunction ==
    \/ AddClass({Class("", "A")}, MaxNonFunctionStmts)
    \/ AddEnum({Enum("E", <<"X">>)}, MaxNonFunctionStmts)
    \/ AddFunction({Function("", "f", "", <<>>)}, MaxNonFunctionStmts)
    \/ AddNormalVariable({Var("_VAR_NODE_", "", "", "x", NULL)}
                            \cup {Var("_VAR_NODE_", "", "", "r", Ptr(Call(name, args))) :
                                     name \in CalledNames,
                                     args \in {<<>>, <<Num("1")>>}},
                         MaxNonFunctionStmts)
    \/ EndRunnable

SpecNonFunction == Init /\ [][NextNonFunction]_vars

\* the statement handled last is  var r = <name>(<arguments>);  and r is new
CallsName ==
    /\ Handled({"_VAR_NODE_"})
    /\ last[1].node.rightNode # NULL
    /\ last[1].node.rightNode[1].type = "_FUNCTION_CALL_NODE_"
    /\ ~OnChain(last[1].before, last[1].table, "r")

CalledNode == last[1].node.rightNode[1]

\* the entry the name of the call resolves to
CalledEntry == NearestEntry(last[1].before, last[1].table, CalledNode.value)

CallsNonFunction ==
    /\ CallsName
    /\ OnChain(last[1].before, last[1].table, CalledNode.value)
    /\ CalledEntry.internalType \in {"VARIABLE", "CLASS", "ENUM"}

\* the type mismatch of a function call expected and a non-function call
\* got, with the text the analyzer makes of the two
NonFunctionCallDiagnosed ==
    \E i \in 1..Len(diags) :
        /\ diags[i].errorType = "TYPE_MISMATCH_EXCEPTION"
        /\ diags[i].description
               = SA_create_expected_got_report(Dec("E_FUNCTION_CALL", 0, "NULL"),
                                               Dec("E_NON_FUNCTION_CALL", 0, "NULL"),
                                               NULL).description

\* C29 (as stated): a call whose name resolves to a variable, a class or an
\* enum is reported as a type mismatch, expected function call, got
\* non-function call, whatever the number of its arguments
C29_NonFunctionCallDiagnosed ==
    CallsNonFunction => NonFunctionCallDiagnosed

\* what holds instead: the entry of a variable has no table, and its call
\* is not reported at all; for a class or an enum the number of arguments
\* is compared with the (empty) parameter list of its table first, and the
\* type mismatch is reported only for the call of as many arguments
C29_NonFunctionCallDiagnosedAfterCount ==
    CallsNonFunction =>
        IF CalledEntry.reference = 0 THEN diags = <<>>
        ELSE IF Len(CalledNode.details)
                    # Len(last[1].before[CalledEntry.reference].paramList)
        THEN /\ Len(diags) = 1
             /\ diags[1].errorType = "WRONG_ARGUMENT_EXCPEPTION"
        ELSE Len(diags) = 1 /\ NonFunctionCallDiagnosed

\* var x; var r = x(); : accepted without a diagnostic
C29_VariableCalledUndiagnosed ==
    /\ CallsNonFunction
    /\ CalledEntry.internalType = "VARIABLE"
    /\ CalledNode.details = <<>>
    /\ diags = <<>>

\* enum E { X }  var r = E(1); : reported as a wrong argument count
C29_EnumCalledWithArgument ==
    /\ CallsNonFunction
    /\ CalledEntry.internalType = "ENUM"
    /\ Len(CalledNode.details) = 1
    /\ Emitted("WRONG_ARGUMENT_EXCPEPTION")
    /\ ~NonFunctionCallDiagnosed

\* enum E { X }  var r = E(); : reported as the claim says
C29_EnumCalledWithoutArgument ==
    /\ CallsNonFunction
    /\ CalledEntry.internalType = "ENUM"
    /\ CalledNode.details = <<>>
    /\ NonFunctionCallDiagnosed

(***************************************************************************)
(* Declarations that are reported, and the tables they leave (the programs *)
(* of Spec).                                                               *)
(***************************************************************************)
VariableDeclarations == {"_VAR_NODE_", "_CONST_NODE_", "_VAR_CLASS_INSTANCE_NODE_"}

\* the statement handled last is a declaration of a variable that was
\* reported
DeclarationDiagnosed == Handled(VariableDeclarations) /\ diags # <<>>

\* C30: a var or const declaration that raises a diagnostic leaves every
\* symbol table as it was before the declaration: the declared name is
\* entered in no scope.
C30_DiagnosedDeclarationLeavesTables ==
    DeclarationDiagnosed => tables = last[1].before

\* var a = a;  with no a declared: reported as not defined, a is not entered
C30_FailedInitializerLeavesTables ==
    /\ DeclarationDiagnosed
    /\ last[1].node.type \in {"_VAR_NODE_", "_CONST_NODE_"}
    /\ last[1].node.rightNode # NULL
    /\ ~OnChain(last[1].before, last[1].table, last[1].node.value)
    /\ Emitted("NOT_DEFINED_EXCEPTION")
    /\ ~OnChain(tables, last[1].table, last[1].node.value)

\* a second declaration of a name: reported as already defined, the entry
\* of the first declaration stays as it is
C30_RedeclarationLeavesTables ==
    /\ DeclarationDiagnosed
    /\ OnChain(last[1].before, last[1].table, last[1].node.value)
    /\ Emitted("ALREADY_DEFINED_EXCEPTION")
    /\ tables = last[1].before

\* var b = new A();  with no class A: reported, b is not entered
C30_FailedInstanceLeavesTables ==
    /\ DeclarationDiagnosed
    /\ last[1].node.type = "_VAR_CLASS_INSTANCE_NODE_"
    /\ Emitted("NOT_DEFINED_EXCEPTION")
    /\ ~OnChain(tables, last[1].table, last[1].node.value)
====
